---- MODULE Spec2Model ----
(***************************************************************************)
(* Model of the meshcore-ai gateway: the connection supervisor of          *)
(* src/src/index.js (connectDevice, queueReconnect, clearReconnectTimer    *)
(* and the 'connected' / 'disconnected' / 'error' handlers) and the        *)
(* in-memory contact cache (cache.js, src/unnamed/part_000).               *)
(*                                                                         *)
(* Time is discrete: one Tick is one unit of the timers' clock.  All       *)
(* timers of the supervisor are created with the same duration             *)
(* (reconnectDelay), so the pending timers, kept in creation order, are    *)
(* also in deadline order and the event loop fires the head first.         *)
(*                                                                         *)
(* The device connection is an opaque collaborator.  Each connect() call   *)
(* creates an attempt with a promise (pending, resolved, rejected) and a   *)
(* port (opening, open, gone).  A 'connected' event belongs to an attempt  *)
(* whose port is opening, a 'disconnected' event to an open port, an       *)
(* 'error' event to a port that is opening or open.                        *)
(***************************************************************************)
EXTENDS Integers, Sequences, FiniteSets, TLC

\* ------------------------------------------------------------------ bounds
Delay == 2          \* ticks of the configured reconnect delay
MaxConnects == 2    \* connect() calls explored under every kind of fault
ScenarioConnects == 4   \* connect() calls explored in the fault-free scenario runs
MaxConnected == 2   \* 'connected' events explored
MaxSched == 3       \* reconnect timers counted (schedCount saturates here)
MaxLogs == 2        \* 'device path not found' lines counted
KeyLen == 2         \* bytes of a public key
MaxContacts == 2    \* entries of the contact cache (directory runs)
MaxPeers == 1              \* the peers of the ingestion runs are KeyWith(0..MaxPeers)
MaxTextLen == 4            \* tokens of a text the split is tried on
MaxJobs == 2               \* runs of the MsgWaiting listener
MaxBatch == 2              \* messages of a waiting batch
MaxOver == 2               \* characters a name or a translation exceeds messageLimit by

\* --------------------------------------------------------------- constants
NoTimer == 0                \* reconnectTimer = null
Null == "<null>"            \* null / undefined of a string field
NoNum == -1                 \* null / undefined of a numeric field, and NaN
Undefined == "<undefined>"  \* an environment variable that is not set
messageLimit == 135         \* bot.js translateChannelMessage: const messageLimit
SecretBytes == 16           \* index.js apiJoinPrivateChannel: secret.length !== 16
FallbackLimit == 3          \* database.findAdvertsByName(advName, 3)
HexDigits == <<"0", "1", "2", "3", "4", "5", "6", "7", "8", "9", "a", "b", "c", "d", "e", "f">>

VARIABLES
    reconnectDelay,         \* Number(process.env.RECONNECT_DELAY), 0 when absent
    meshcoreDevice,         \* TRUE iff process.env.MESHCORE_DEVICE is set
    deviceExists,           \* fs.existsSync(meshcoreDevice)
    launched,               \* the top-level connectDevice() has run
    isConnected,
    reconnectTimer,         \* handle of the reconnect timer, NoTimer when null
    missingDeviceLogged,
    timers,                 \* pending setTimeout timers, in creation order
    attempts,               \* one record per connect() call
    budget,                 \* connect() calls left to explore
    warm,                   \* position of each run of the 'connected' handler
    selfInfo,               \* selfInfo.name, Null while selfInfo = {}
    botName,                \* bot.js botName
    byKey,                  \* contactCache.byKey, in insertion order
    byName,                 \* contactCache.byName
    lastOp,                 \* the operation that made the last step
    schedCount,             \* reconnect timers scheduled so far, up to MaxSched
    missingLogs,            \* 'device path not found' lines since the last 'connected'
    inSkipRun,              \* the latest connectDevice run skipped connect()
    wdForced,               \* some watchdog fired while the state was not Connected
    lastQuery,              \* argument of the directory lookup of the last step
    lastResult,             \* its result
    lastArg,                \* the contact handed to cacheContact by the last step
    repeat,                 \* that step repeated the cacheContact call of the step before
    call,                   \* the latest resolveContactByAdvName call
    adverts,                \* the adverts table, oldest timestamp first
    adv,                    \* the latest run of onAdvertReceived
    run,                    \* the latest run of a message handler
    env,                    \* process.env as bot.js reads it when it is loaded
    nudges,                 \* the nudgeBot calls, in call order
    sent,                   \* the sendChannelTextMessage calls of bot.js, in order
    messages,               \* the messages table, in insertion order
    jobs                    \* the runs of the MsgWaiting listener

supVars == <<reconnectDelay, meshcoreDevice, deviceExists, launched, isConnected,
             reconnectTimer, missingDeviceLogged, timers, attempts, budget, warm, selfInfo,
             botName, lastOp, schedCount, missingLogs, inSkipRun, wdForced>>
cacheVars == <<byKey, byName>>
queryVars == <<lastQuery, lastResult, lastArg, repeat>>
botVars == <<env, nudges, sent>>
batchVars == <<messages, jobs>>
ingestVars == <<call, adverts, adv, run, botVars, batchVars>>
vars == <<supVars, cacheVars, queryVars, ingestVars>>

\* ------------------------------------------------------------ helpers.js
\* Buffer.from(values).toString("hex"): two lowercase hex digits per byte
ByteHex(b) == <<HexDigits[((b % 256) \div 16) + 1], HexDigits[(b % 16) + 1]>>

RECURSIVE bytesToHex(_)
bytesToHex(byteLike) ==
    IF byteLike = <<>> THEN <<>>
    ELSE ByteHex(Head(byteLike)) \o bytesToHex(Tail(byteLike))

\* String.prototype.startsWith
startsWith(s, p) == Len(p) <= Len(s) /\ SubSeq(s, 1, Len(p)) = p

\* -------------------------------------------------- cache.js (part_000)
\* faulty variant: every set appends, also for a key already present
MapSet_AlwaysAppend(m, k, v) == Append(m, [key |-> k, contact |-> v])

\* Map.prototype.set on an order-preserving map: an existing key keeps its
\* position, a new key goes last
\* faulty variant: the map holds the latest entry alone
MapSet_KeepsLatest(m, k, v) == <<[key |-> k, contact |-> v]>>

MapSet(m, k, v) ==
    IF \E i \in 1..Len(m) : m[i].key = k
    THEN [i \in 1..Len(m) |-> IF m[i].key = k THEN [key |-> k, contact |-> v] ELSE m[i]]
    ELSE Append(m, [key |-> k, contact |-> v])

\* { ...contact, publicKeyHex }
WithHex(contact, hex) ==
    [f \in DOMAIN contact \cup {"publicKeyHex"} |->
        IF f = "publicKeyHex" THEN hex ELSE contact[f]]

\* no contact at all
NoContact == [publicKey |-> <<>>, advName |-> Null, lastMod |-> NoNum]

EmptyCache == [byKey |-> <<>>, byName |-> [n \in {} |-> <<>>]]

cacheContact(cc, contact) ==
    IF contact.publicKey = <<>> THEN cc
    ELSE LET publicKeyHex == bytesToHex(contact.publicKey) IN
         IF publicKeyHex = <<>> THEN cc
         ELSE [byKey |-> MapSet(cc.byKey, publicKeyHex, contact),
               byName |-> IF contact.advName \notin {Null, ""}
                          THEN [n \in DOMAIN cc.byName \cup {contact.advName} |->
                                  IF n = contact.advName
                                  THEN WithHex(contact, publicKeyHex)
                                  ELSE cc.byName[n]]
                          ELSE cc.byName]

\* faulty variant: the bulk upsert starts from an empty directory
RECURSIVE cacheContacts_Rebuild(_, _)
cacheContacts_Rebuild(cc, contacts) ==
    IF contacts = <<>> THEN EmptyCache
    ELSE cacheContact(cacheContacts_Rebuild(cc, SubSeq(contacts, 1, Len(contacts) - 1)),
                      contacts[Len(contacts)])

RECURSIVE cacheContacts(_, _)
cacheContacts(cc, contacts) ==
    IF contacts = <<>> THEN cc
    ELSE cacheContacts(cacheContact(cc, Head(contacts)), Tail(contacts))

\* a lookup result is <<>> for null and <<entry>> for a contact
getCachedContactByPublicKey(cc, publicKeyBytes) ==
    LET publicKeyHex == bytesToHex(publicKeyBytes)
        hits == {i \in 1..Len(cc.byKey) : cc.byKey[i].key = publicKeyHex} IN
    IF hits = {} THEN <<>>
    ELSE LET i == CHOOSE j \in hits : TRUE IN
         <<WithHex(cc.byKey[i].contact, publicKeyHex)>>

FirstPrefixMatch(m, prefixHex) ==
    LET hits == {i \in 1..Len(m) : startsWith(m[i].key, prefixHex)} IN
    IF hits = {} THEN <<>>
    ELSE LET i == CHOOSE j \in hits : \A k \in hits : j <= k IN
         <<WithHex(m[i].contact, m[i].key)>>

\* faulty variant: the scan keeps going and returns the last match
getCachedContactByPrefix_LastMatch(cc, prefixBytes) ==
    LET m == cc.byKey
        hits == {i \in 1..Len(m) : startsWith(m[i].key, bytesToHex(prefixBytes))} IN
    IF hits = {} THEN <<>>
    ELSE LET i == CHOOSE j \in hits : \A k \in hits : j >= k IN
         <<WithHex(m[i].contact, m[i].key)>>

\* prefixBytes is a byte sequence here; the empty one is truthy in the code
\* and its hex string "" starts every key
getCachedContactByPrefix(cc, prefixBytes) ==
    FirstPrefixMatch(cc.byKey, bytesToHex(prefixBytes))

\* contactCache.byName.get(advName)
byNameGet(cc, advName) ==
    IF advName \in DOMAIN cc.byName THEN <<cc.byName[advName]>> ELSE <<>>

\* no resolveContactByAdvName call yet
NoCall ==
    [pc |-> "idle", name |-> Null, fetches |-> 0, hit |-> FALSE,
     reported |-> FALSE, result |-> <<>>]

\* faulty variant: the name index is not looked at before the fetch
resolveStart_AlwaysFetch(cc, advName, connection) ==
    IF advName \in {Null, ""} \/ ~connection
    THEN [NoCall EXCEPT !.pc = "returned", !.name = advName]
    ELSE [NoCall EXCEPT !.pc = "fetching", !.name = advName, !.fetches = 1]

\* resolveContactByAdvName up to its await: the call returns at once for an
\* empty name, a name-index hit or a missing connection, and else waits
\* for connection.getContacts()
resolveStart(cc, advName, connection) ==
    LET cached == byNameGet(cc, advName) IN
    IF advName \in {Null, ""}
    THEN [NoCall EXCEPT !.pc = "returned", !.name = advName]
    ELSE IF cached # <<>>
    THEN [NoCall EXCEPT !.pc = "returned", !.name = advName, !.hit = TRUE,
                        !.result = cached]
    ELSE IF ~connection
    THEN [NoCall EXCEPT !.pc = "returned", !.name = advName]
    ELSE [NoCall EXCEPT !.pc = "fetching", !.name = advName, !.fetches = 1]

\* the device's list names advName
Reports(contacts, advName) ==
    \E i \in 1..Len(contacts) :
        contacts[i].publicKey # <<>> /\ contacts[i].advName = advName

\* faulty variant: the fetched contacts are not stored before the retry
resolveFinish_NoUpsert(cc, c, contacts) ==
    [cache |-> cc,
     call |-> [c EXCEPT !.pc = "returned",
                        !.reported = Reports(contacts, c.name),
                        !.result = byNameGet(cc, c.name)]]

\* resolveContactByAdvName after getContacts() resolved: cacheContacts, then
\* the name index once more
resolveFinish(cc, c, contacts) ==
    LET warmed == cacheContacts(cc, contacts) IN
    [cache |-> warmed,
     call |-> [c EXCEPT !.pc = "returned",
                        !.reported = Reports(contacts, c.name),
                        !.result = byNameGet(warmed, c.name)]]

\* ------------------------------------------- index.js: onAdvertReceived
\* An optional value is <<>> when undefined or null and <<v>> otherwise.
\* Constants.AdvType of the device library, lower-cased
AdvType == (0 :> "none") @@ (1 :> "chat") @@ (2 :> "repeater") @@ (3 :> "room")

\* helpers.constantKey(Constants.AdvType, t).toLowerCase()
constantKey(t) == IF t \in DOMAIN AdvType THEN AdvType[t] ELSE "unknown"

\* (v / 1e6).toFixed(6) of a non-negative integer below 10^7
toFixed6(v) ==
    <<HexDigits[(v \div 1000000) + 1], ".">> \o
    [i \in 1..6 |-> HexDigits[((v \div (10 ^ (6 - i))) % 10) + 1]]

\* (v) => (v != null ? (v / 1e6).toFixed(6) : "")
coordinate(v) == IF v # NoNum THEN toFixed6(v) ELSE <<>>

AdvertFields == {"type", "lastAdvert", "lastMod", "advLat", "advLon", "advName"}

\* obj[field] != null
Present(field, v) == IF field = "advName" THEN v # Null ELSE v # NoNum

\* obj[field], undefined when the object has no such field
Field(obj, field) ==
    IF field \in DOMAIN obj THEN obj[field]
    ELSE IF field = "advName" THEN Null ELSE NoNum

\* the transform handed to pick for each field
transform(field, v) ==
    CASE field = "type" -> constantKey(v)
      [] field \in {"advLat", "advLon"} -> coordinate(v)
      [] OTHER -> v

\* pick(field, transform): the advert's value, else the contact's
pick(advert, contact, field) ==
    IF Present(field, advert[field]) THEN <<transform(field, advert[field])>>
    ELSE IF contact = <<>> THEN <<>>
    ELSE <<transform(field, Field(contact[1], field))>>

\* an optional value as a field of an object handed on
Raw(field, opt) ==
    IF opt # <<>> THEN opt[1] ELSE IF field = "advName" THEN Null ELSE NoNum

\* the normalized advert: publicKey and the six picked fields
normalize(advert, contact) ==
    [publicKey |-> bytesToHex(advert.publicKey),
     type |-> pick(advert, contact, "type"),
     advName |-> pick(advert, contact, "advName"),
     lastAdvert |-> pick(advert, contact, "lastAdvert"),
     lastMod |-> pick(advert, contact, "lastMod"),
     advLat |-> pick(advert, contact, "advLat"),
     advLon |-> pick(advert, contact, "advLon")]

\* faulty variant: a plain INSERT without the ON CONFLICT clause and
\* without the primary key
upsertAdvert_InsertOnly(table, row) == Append(table, row)

\* database.upsertAdvert: INSERT ... ON CONFLICT(public_key) DO UPDATE; the
\* row gets the timestamp of now, so it becomes the newest
upsertAdvert(table, row) ==
    Append(SelectSeq(table, LAMBDA r : r.publicKey # row.publicKey), row)

\* ------------------------------------------ index.js: message handlers
\* Buffer.from(hex, "hex") of an even-length string of hex digits
RECURSIVE hexToBytes(_)
hexToBytes(hex) ==
    IF Len(hex) < 2 THEN <<>>
    ELSE LET hi == CHOOSE i \in 0..15 : HexDigits[i + 1] = hex[1]
             lo == CHOOSE i \in 0..15 : HexDigits[i + 1] = hex[2] IN
         <<hi * 16 + lo>> \o hexToBytes(SubSeq(hex, 3, Len(hex)))

\* a text is a sequence of tokens: names, words, ":", " " and the line
\* feed "<LF>"
LineTerminators == {"<LF>"}
Whitespace == {" ", "<LF>"}

\* .* matches the whole of s: a dot matches no line terminator
dotAll(s) == \A i \in 1..Len(s) : s[i] \notin LineTerminators

\* the string a sequence of tokens spells
spell(tokens) ==
    IF tokens = <<>> THEN ""
    ELSE IF Len(tokens) = 1 THEN tokens[1]
    ELSE ToString(tokens)

\* message.text.match(/^(.*?):\s?(.*)$/) and the assignments that follow.
\* The lazy prefix stops at the first colon from which the rest of the
\* pattern matches up to the end of the text: no line terminator before
\* the colon, and none after it but one that \s? takes. Without a match
\* advName stays null and the text whole
splitText(text) ==
    LET after(i) == SubSeq(text, i + 1, Len(text))
        matches == {i \in 1..Len(text) :
                      /\ text[i] = ":"
                      /\ dotAll(SubSeq(text, 1, i - 1))
                      /\ \/ dotAll(after(i))
                         \/ /\ after(i) # <<>>
                            /\ Head(after(i)) \in Whitespace
                            /\ dotAll(Tail(after(i)))} IN
    IF matches = {} THEN [advName |-> Null, parsedText |-> text]
    ELSE LET i == CHOOSE j \in matches : \A k \in matches : j <= k
             rest == after(i) IN
         [advName |-> spell(SubSeq(text, 1, i - 1)),
          parsedText |-> IF rest # <<>> /\ Head(rest) \in Whitespace
                         THEN Tail(rest) ELSE rest]

\* the rows of a table in the order of ORDER BY COALESCE(last_mod, 0) DESC,
\* datetime(timestamp) DESC
RECURSIVE orderByLastMod(_)
orderByLastMod(rows) ==
    IF rows = <<>> THEN <<>>
    ELSE LET mod(r) == IF r.lastMod = <<>> THEN 0 ELSE r.lastMod[1]
             first == CHOOSE i \in 1..Len(rows) : \A j \in 1..Len(rows) :
                          \/ mod(rows[i]) > mod(rows[j])
                          \/ mod(rows[i]) = mod(rows[j]) /\ i >= j
         IN <<rows[first]>> \o
            orderByLastMod(SubSeq(rows, 1, first - 1) \o SubSeq(rows, first + 1, Len(rows)))

\* database.findAdvertsByName(advName, limit)
findAdvertsByName(table, advName, limit) ==
    LET named == orderByLastMod(SelectSeq(table, LAMBDA r : r.advName = <<advName>>)) IN
    SubSeq(named, 1, IF Len(named) < limit THEN Len(named) ELSE limit)

\* Array.from(new Set(adverts.map(public_key).filter(Boolean)))
uniqueKeys(rows) == {rows[i].publicKey : i \in {j \in 1..Len(rows) : rows[j].publicKey # <<>>}}

\* faulty variant: any match in the adverts table resolves the name
fallback_FirstRow(cc, table, advName, dbOk) ==
    LET rows == IF dbOk THEN findAdvertsByName(table, advName, FallbackLimit) ELSE <<>> IN
    IF rows # <<>>
    THEN [publicKey |-> <<rows[1].publicKey>>,
          cache |-> cacheContact(cc, [publicKey |-> hexToBytes(rows[1].publicKey),
                                      advName |-> advName,
                                      lastMod |-> Raw("lastMod", rows[1].lastMod)])]
    ELSE [publicKey |-> <<>>, cache |-> cc]

\* faulty variant: the resolved name is not stored in the directory
fallback_NoCache(cc, table, advName, dbOk) ==
    LET rows == IF dbOk THEN findAdvertsByName(table, advName, FallbackLimit) ELSE <<>>
        keys == uniqueKeys(rows) IN
    IF Cardinality(keys) = 1
    THEN [publicKey |-> <<CHOOSE k \in keys : TRUE>>, cache |-> cc]
    ELSE [publicKey |-> <<>>, cache |-> cc]

\* the adverts fallback of onChannelMessageReceived: one distinct key among
\* the rows resolves the name and stores a synthetic contact; a failing
\* query is caught and resolves nothing
fallback(cc, table, advName, dbOk) ==
    LET rows == IF dbOk THEN findAdvertsByName(table, advName, FallbackLimit) ELSE <<>>
        keys == uniqueKeys(rows) IN
    IF Cardinality(keys) = 1
    THEN LET key == CHOOSE k \in keys : TRUE IN
         [publicKey |-> <<key>>,
          cache |-> cacheContact(cc, [publicKey |-> hexToBytes(key),
                                      advName |-> advName,
                                      lastMod |-> Raw("lastMod", rows[1].lastMod)])]
    ELSE [publicKey |-> <<>>, cache |-> cc]

\* x || null of a name
orNull(advName) == IF advName \in {Null, ""} THEN <<>> ELSE <<advName>>

\* no run of a message handler yet
NoRun ==
    [pc |-> "idle", kind |-> Null, message |-> <<>>, advName |-> Null,
     contact |-> <<>>, lookups |-> 0, fetched |-> <<>>, queries |-> 0, dbOk |-> TRUE,
     saves |-> 0, dispatches |-> 0, row |-> <<>>, event |-> <<>>]

\* no run of onAdvertReceived yet
NoAdvertRun ==
    [pc |-> "idle", advert |-> NoContact, contact |-> <<>>, lookups |-> 0,
     event |-> <<>>, cached |-> FALSE, persisted |-> FALSE, failed |-> FALSE]

\* ------------------------------------------------------------------ bot.js
\* JavaScript strings are TLA+ strings; SubSeq(s, i, i) is the character at i.
\* An unset environment variable is Undefined, a null number is <<>>, a
\* number n is <<n>>, and NaN is NoNum.
charAt(s, i) == SubSeq(s, i, i)

\* String.prototype.slice(0, n)
slice(s, n) == SubSeq(s, 1, IF Len(s) < n THEN Len(s) ELSE n)

\* String.prototype.trim
Blank == {" ", "\t", "\n"}
RECURSIVE trim(_)
trim(s) ==
    IF s = "" THEN ""
    ELSE IF charAt(s, 1) \in Blank THEN trim(SubSeq(s, 2, Len(s)))
    ELSE IF charAt(s, Len(s)) \in Blank THEN trim(SubSeq(s, 1, Len(s) - 1))
    ELSE s

\* String.prototype.splitCommas(","), the parts in order
RECURSIVE splitCommas(_)
splitCommas(s) ==
    LET commas == {i \in 1..Len(s) : charAt(s, i) = ","} IN
    IF commas = {} THEN <<s>>
    ELSE LET i == CHOOSE j \in commas : \A k \in commas : j <= k IN
         <<SubSeq(s, 1, i - 1)>> \o splitCommas(SubSeq(s, i + 1, Len(s)))

\* Number(value) of a string: "" and blanks are 0, a numeral its number,
\* undefined and every other string NaN
Numerals == <<"0", "1", "2", "3">>
Number(value) ==
    IF value = Undefined THEN NoNum
    ELSE IF trim(value) = "" THEN 0
    ELSE IF \E n \in 1..Len(Numerals) : Numerals[n] = trim(value)
         THEN (CHOOSE n \in 1..Len(Numerals) : Numerals[n] = trim(value)) - 1
         ELSE NoNum

\* parseChannelIds without the blank parts filter: a blank part counts as 0
\* faulty variant: "1," also names channel 0
parseChannelIds_BlankIsZero(value) ==
    LET parts == splitCommas(IF value \in {Undefined, ""} THEN "" ELSE value) IN
    {Number(trim(parts[i])) : i \in 1..Len(parts)} \ {NoNum}

\* parseChannelIds(value)
parseChannelIds(value) ==
    LET parts == splitCommas(IF value \in {Undefined, ""} THEN "" ELSE value)
        kept == {i \in 1..Len(parts) : trim(parts[i]) # ""} IN
    {Number(trim(parts[i])) : i \in kept} \ {NoNum}

\* const translateToChannel: Number(process.env.AI_TRANSLATE_TO), null
\* when that is not finite
translateToChannel(e) ==
    LET n == Number(e.AI_TRANSLATE_TO) IN IF n # NoNum THEN <<n>> ELSE <<>>

\* Number(destinationChannelIdx ?? translateToChannel) with both operands
\* the constant translateToChannel, as nudgeBot calls it: Number(null) is 0
destination(e) ==
    LET n == translateToChannel(e) IN IF n = <<>> THEN 0 ELSE n[1]

\* the i flag of the mention pattern, on the letters
UpperCase == "ABCDEFGHIJKLMNOPQRSTUVWXYZ"
LowerCase == "abcdefghijklmnopqrstuvwxyz"
toLower(c) ==
    LET at == {i \in 1..Len(UpperCase) : charAt(UpperCase, i) = c} IN
    IF at = {} THEN c ELSE charAt(LowerCase, CHOOSE i \in at : TRUE)

\* the name put into the pattern as it is
\* faulty variant: a '.' of the name matches every character of a line
escapedName_Unescaped(name) ==
    [i \in 1..Len(name) |->
        [char |-> charAt(name, i), literal |-> charAt(name, i) # "."]]

\* botName.replace(/[.*+?^${}()|[\]\\]/g, "\\$&"): the atoms of the
\* pattern, every character of the name standing for itself
escapedName(name) ==
    [i \in 1..Len(name) |-> [char |-> charAt(name, i), literal |-> TRUE]]

\* isBotMentioned(text): new RegExp(`@\\[?${escapedName}\\]?`, "i").test(text)
isBotMentioned(name, text) ==
    /\ name \notin {Null, ""}
    /\ text \notin {Null, ""}
    /\ LET atoms == escapedName(name)
           nameAt(p) ==
               /\ p + Len(atoms) - 1 <= Len(text)
               /\ \A k \in 1..Len(atoms) :
                      IF atoms[k].literal
                      THEN toLower(charAt(text, p + k - 1)) = toLower(atoms[k].char)
                      ELSE charAt(text, p + k - 1) # "\n" IN
       \E i \in 1..Len(text) :
           /\ charAt(text, i) = "@"
           /\ \/ nameAt(i + 1)
              \/ i < Len(text) /\ charAt(text, i + 1) = "[" /\ nameAt(i + 2)

\* isAllowedChannel(channelIdx)
isAllowedChannel(e, channelIdx) ==
    channelIdx # NoNum /\ channelIdx \in parseChannelIds(e.BOT_CHANNELS)

\* translateChannelMessage: the payload without the cut to messageLimit
\* faulty variant: a long display name makes the payload longer than the limit
relayPayload_NoHardCap(advName, translatedClean) ==
    LET namePart == IF advName \in {Null, ""} THEN "Unknown" ELSE advName
        budgetLeft == messageLimit - (Len(namePart) + 2)
        capped == slice(translatedClean, IF budgetLeft < 0 THEN 0 ELSE budgetLeft) IN
    namePart \o ": " \o capped

\* translateChannelMessage: budget, namePart, capped and payload
relayPayload(advName, translatedClean) ==
    LET namePart == IF advName \in {Null, ""} THEN "Unknown" ELSE advName
        budgetLeft == messageLimit - (Len(namePart) + 2)
        capped == slice(translatedClean, IF budgetLeft < 0 THEN 0 ELSE budgetLeft) IN
    slice(namePart \o ": " \o capped, messageLimit)

\* handleChannelMessage: replyText
replyText(advName, text) ==
    "@[" \o (IF advName \in {Null, ""} THEN "friend" ELSE advName) \o "] you said: " \o text

\* translateChannelMessage up to its first await: what it returns at once,
\* or the prompt it hands to queryAiGate
translateStart(e, event) ==
    IF event.channelIdx \notin parseChannelIds(e.AI_TRANSLATE_FROM)
    THEN [pc |-> "return", result |-> Null]
    ELSE IF destination(e) = NoNum
    THEN [pc |-> "return", result |-> "Missing destination channel id"]
    ELSE IF ~event.connection
    THEN [pc |-> "return", result |-> "Missing connection"]
    ELSE IF trim(IF event.text = Null THEN "" ELSE event.text) = ""
    THEN [pc |-> "return", result |-> "Missing text"]
    ELSE [pc |-> "ai", result |-> Null]

\* --------------------------------------------------- index.js: timers
IsReconnect(t) == t.kind = "reconnect"
ReconnectTimers(tms) == SelectSeq(tms, IsReconnect)
NumReconnect(tms) == Len(ReconnectTimers(tms))
TimerIds(tms) == {tms[i].id : i \in 1..Len(tms)}

\* a fresh timer handle: the least id that no pending timer and no held
\* handle uses (a timer whose handle was not kept has id NoTimer)
NewTimerId(tms, handle) ==
    CHOOSE n \in 1..(Len(tms) + 2) :
        /\ n \notin TimerIds(tms) \cup {handle}
        /\ \A m \in 1..(n - 1) : m \in TimerIds(tms) \cup {handle}

\* the timer state handed through a handler: the pending timers, the
\* reconnectTimer handle and the count of reconnect timers scheduled
TimerState == [timers |-> timers, handle |-> reconnectTimer, sched |-> schedCount]

SetTimerState(ts) ==
    /\ timers' = ts.timers
    /\ reconnectTimer' = ts.handle
    /\ schedCount' = ts.sched

\* setTimeout(callback, reconnectDelay)
setTimeout(tms, id, kind) ==
    Append(tms, [id |-> id, kind |-> kind, left |-> reconnectDelay])

\* clearTimeout(handle)
clearTimeout(tms, handle) ==
    SelectSeq(tms, LAMBDA t : t.id # handle)

\* faulty variant: no check for a pending timer
queueReconnect_NoPendingCheck(ts) ==
    IF reconnectDelay = 0 THEN ts
    ELSE LET id == NewTimerId(ts.timers, ts.handle) IN
         [ts EXCEPT !.timers = setTimeout(ts.timers, id, "reconnect"),
                    !.handle = id,
                    !.sched = IF ts.sched < MaxSched THEN ts.sched + 1 ELSE ts.sched]

\* faulty variant: no check for a configured delay
queueReconnect_NoDelayCheck(ts) ==
    IF ts.handle # NoTimer THEN ts
    ELSE LET id == NewTimerId(ts.timers, ts.handle) IN
         [ts EXCEPT !.timers = setTimeout(ts.timers, id, "reconnect"),
                    !.handle = id,
                    !.sched = IF ts.sched < MaxSched THEN ts.sched + 1 ELSE ts.sched]

queueReconnect(ts) ==
    IF reconnectDelay = 0 \/ ts.handle # NoTimer THEN ts
    ELSE LET id == NewTimerId(ts.timers, ts.handle) IN
         [ts EXCEPT !.timers = setTimeout(ts.timers, id, "reconnect"),
                    !.handle = id,
                    !.sched = IF ts.sched < MaxSched THEN ts.sched + 1 ELSE ts.sched]

\* faulty variant: the handle is dropped but the timer is not cleared
clearReconnectTimer_KeepsTimer(ts) ==
    IF ts.handle = NoTimer THEN ts
    ELSE [ts EXCEPT !.handle = NoTimer]

clearReconnectTimer(ts) ==
    IF ts.handle = NoTimer THEN ts
    ELSE [ts EXCEPT !.timers = clearTimeout(ts.timers, ts.handle),
                    !.handle = NoTimer]

\* the watchdog armed after connect() resolved; the handle setTimeout
\* returns is not kept, so the timer carries none
armWatchdog(ts) ==
    IF reconnectDelay # 0
    THEN [ts EXCEPT !.timers = setTimeout(ts.timers, NoTimer, "watchdog")]
    ELSE ts

\* faulty variant: the watchdog does not look at isConnected
watchdogFired_Unconditional(ts, connected) == queueReconnect(ts)

\* the watchdog's callback
watchdogFired(ts, connected) ==
    IF ~connected THEN queueReconnect(ts) ELSE ts

\* ------------------------------------------- index.js: the supervisor
\* what the device reports to the post-connect warm-up
DeviceContacts == <<[publicKey |-> <<1, 16>>, advName |-> "Rover", lastMod |-> 10]>>
DeviceSelfNames == {"", "Base"}

Cache == [byKey |-> byKey, byName |-> byName]
SetCache(cc) == byKey' = cc.byKey /\ byName' = cc.byName

\* faulty variant: an empty name is kept as the bot name
setBotName_KeepsEmpty(name) == name

\* bot.js setBotName
setBotName(name) == IF name \in {"", Null} THEN Null ELSE name

cfgVars == <<reconnectDelay, meshcoreDevice>>
tmVars == <<timers, reconnectTimer, schedCount>>
skipVars == <<missingDeviceLogged, missingLogs, inSkipRun>>
warmVars == <<warm, selfInfo, botName>>

\* calls and events counted from the handler runs and the attempts
WarmAt(pcs) == {k \in 1..Len(warm) : warm[k] \in pcs}
getContactsCalls == Len(warm)
syncCalls == Cardinality(WarmAt({"syncDeviceTime", "sendZeroHopAdvert", "done",
                                 "rejected:syncDeviceTime", "rejected:sendZeroHopAdvert"}))
escaped == Cardinality(WarmAt({"rejected:getSelfInfo", "rejected:syncDeviceTime",
                               "rejected:sendZeroHopAdvert"}))
connectCalls == Len(attempts)

InitWith(calls) ==
    /\ budget = calls
    /\ reconnectDelay \in {0, Delay}
    /\ meshcoreDevice \in BOOLEAN
    /\ deviceExists \in BOOLEAN
    /\ (~meshcoreDevice => deviceExists)
    /\ launched = FALSE
    /\ isConnected = FALSE
    /\ reconnectTimer = NoTimer
    /\ missingDeviceLogged = FALSE
    /\ timers = <<>>
    /\ attempts = <<>>
    /\ warm = <<>>
    /\ selfInfo = Null
    /\ byKey = <<>>
    /\ byName = EmptyCache.byName
    /\ lastOp = "init"
    /\ schedCount = 0
    /\ missingLogs = 0
    /\ inSkipRun = FALSE
    /\ wdForced = FALSE
    /\ lastQuery = <<>>
    /\ lastResult = <<>>
    /\ lastArg = NoContact
    /\ repeat = FALSE
    /\ call = NoCall
    /\ adv = NoAdvertRun
    /\ run = NoRun
    /\ nudges = <<>>
    /\ sent = <<>>
    /\ messages = <<>>
    /\ jobs = <<>>

\* bot.js loaded with none of its variables set, the bot not yet named
NoEnv == [AI_TRANSLATE_FROM |-> Undefined, AI_TRANSLATE_TO |-> Undefined,
          BOT_CHANNELS |-> Undefined]
NoBot ==
    /\ botName = Null
    /\ env = NoEnv

Init ==
    /\ InitWith(MaxConnects)
    /\ NoBot
    /\ adverts = <<>>

\* faulty variant: missingDeviceLogged is never set, every skipped run logs
connectDevice_LogsEveryTime(ts) ==
    IF meshcoreDevice /\ ~deviceExists
    THEN /\ missingDeviceLogged' = missingDeviceLogged
         /\ missingLogs' = IF missingDeviceLogged THEN missingLogs ELSE missingLogs + 1
         /\ missingLogs' <= MaxLogs
         /\ SetTimerState(queueReconnect(ts))
         /\ inSkipRun' = TRUE
         /\ lastOp' = "skip"
         /\ UNCHANGED <<attempts, budget>>
    ELSE /\ budget > 0
         /\ budget' = budget - 1
         /\ attempts' = Append(attempts, [promise |-> "pending", port |-> "opening"])
         /\ SetTimerState(ts)
         /\ inSkipRun' = FALSE
         /\ lastOp' = "connect"
         /\ UNCHANGED <<missingDeviceLogged, missingLogs>>

\* connectDevice(), started with the timer state ts
connectDevice(ts) ==
    IF meshcoreDevice /\ ~deviceExists
    THEN /\ missingDeviceLogged' = TRUE
         /\ missingLogs' = IF missingDeviceLogged THEN missingLogs ELSE missingLogs + 1
         /\ missingLogs' <= MaxLogs
         /\ SetTimerState(queueReconnect(ts))
         /\ inSkipRun' = TRUE
         /\ lastOp' = "skip"
         /\ UNCHANGED <<attempts, budget>>
    ELSE /\ budget > 0
         /\ budget' = budget - 1
         /\ attempts' = Append(attempts, [promise |-> "pending", port |-> "opening"])
         /\ SetTimerState(ts)
         /\ inSkipRun' = FALSE
         /\ lastOp' = "connect"
         /\ UNCHANGED <<missingDeviceLogged, missingLogs>>

\* await connectDevice() at the end of index.js
Launch ==
    /\ ~launched
    /\ launched' = TRUE
    /\ connectDevice(TimerState)
    /\ UNCHANGED <<cfgVars, deviceExists, isConnected, warmVars, wdForced, cacheVars, queryVars, ingestVars>>

\* connect() resolves: connectDevice goes on and arms the watchdog
ConnectResolves(i) ==
    /\ attempts[i].promise = "pending"
    /\ attempts' = [attempts EXCEPT ![i].promise = "resolved"]
    /\ SetTimerState(armWatchdog(TimerState))
    /\ lastOp' = "resolve"
    /\ UNCHANGED <<cfgVars, deviceExists, launched, isConnected, budget, skipVars,
                   warmVars, wdForced, cacheVars, queryVars, ingestVars>>

\* connect() rejects: the catch block of connectDevice; the port of a
\* rejected connect() never opens
ConnectRejects(i) ==
    /\ attempts[i].promise = "pending"
    /\ attempts[i].port \in {"opening", "gone"}
    /\ attempts' = [attempts EXCEPT ![i].promise = "rejected", ![i].port = "gone"]
    /\ SetTimerState(queueReconnect(TimerState))
    /\ lastOp' = "reject"
    /\ UNCHANGED <<cfgVars, deviceExists, launched, isConnected, budget, skipVars,
                   warmVars, wdForced, cacheVars, queryVars, ingestVars>>

\* the synchronous head of the 'connected' handler
onConnected(ts) ==
    [isConnected |-> TRUE, missingDeviceLogged |-> FALSE, ts |-> clearReconnectTimer(ts)]

\* faulty variant: the handler forgets to schedule the reconnect
onDisconnected_NoReconnect(ts) == [isConnected |-> FALSE, ts |-> ts]

\* the 'disconnected' handler
onDisconnected(ts) == [isConnected |-> FALSE, ts |-> queueReconnect(ts)]

\* the 'error' handler
onError(ts) == [isConnected |-> FALSE, ts |-> queueReconnect(ts)]

\* 'connected': the handler runs up to its first await (getContacts)
EvConnected(i) ==
    /\ attempts[i].port = "opening"
    /\ meshcoreDevice => deviceExists
    /\ Len(warm) < MaxConnected
    /\ attempts' = [attempts EXCEPT ![i].port = "open"]
    /\ LET r == onConnected(TimerState) IN
        /\ isConnected' = r.isConnected
        /\ missingDeviceLogged' = r.missingDeviceLogged
        /\ SetTimerState(r.ts)
    /\ warm' = Append(warm, "getContacts")
    /\ missingLogs' = 0
    /\ inSkipRun' = FALSE
    /\ lastOp' = IF NumReconnect(timers) > 0 THEN "connected+pending" ELSE "connected"
    /\ UNCHANGED <<cfgVars, deviceExists, launched, budget, selfInfo, botName,
                   wdForced, cacheVars, queryVars, ingestVars>>

Fault(r, op) ==
    /\ isConnected' = r.isConnected
    /\ SetTimerState(r.ts)
    /\ lastOp' = op
    /\ UNCHANGED <<cfgVars, deviceExists, launched, budget, skipVars, warmVars,
                   wdForced, cacheVars, queryVars, ingestVars>>

\* 'disconnected': an open port closes
EvDisconnected(i) ==
    /\ attempts[i].port = "open"
    /\ attempts' = [attempts EXCEPT ![i].port = "gone"]
    /\ Fault(onDisconnected(TimerState), "disconnected")

\* 'error' that ends the port (a failed open, a lost device)
EvErrorFatal(i) ==
    /\ attempts[i].port \in {"opening", "open"}
    /\ attempts' = [attempts EXCEPT ![i].port = "gone"]
    /\ Fault(onError(TimerState), "error")

\* 'error' on an open port that stays open
EvErrorTransient(i) ==
    /\ attempts[i].port = "open"
    /\ attempts' = attempts
    /\ Fault(onError(TimerState), "error")

\* --- the rest of the 'connected' handler, one action per awaited call
WarmFrame ==
    /\ lastOp' = "warm"
    /\ UNCHANGED <<cfgVars, deviceExists, launched, isConnected, tmVars, attempts,
                   budget, skipVars, wdForced, queryVars, ingestVars>>

\* getContacts() resolved: cache.cacheContacts(contacts), then getSelfInfo()
WarmContactsOk(k) ==
    /\ warm[k] = "getContacts"
    /\ SetCache(cacheContacts(Cache, DeviceContacts))
    /\ warm' = [warm EXCEPT ![k] = "getSelfInfo"]
    /\ WarmFrame
    /\ UNCHANGED <<selfInfo, botName>>

\* getContacts() rejected: the catch block logs, then getSelfInfo()
WarmContactsFail(k) ==
    /\ warm[k] = "getContacts"
    /\ warm' = [warm EXCEPT ![k] = "getSelfInfo"]
    /\ WarmFrame
    /\ UNCHANGED <<selfInfo, botName, cacheVars>>

\* getSelfInfo() resolved: selfInfo, setBotName, then syncDeviceTime()
WarmSelfInfoOk(k, name) ==
    /\ warm[k] = "getSelfInfo"
    /\ selfInfo' = name
    /\ botName' = setBotName(name)
    /\ warm' = [warm EXCEPT ![k] = "syncDeviceTime"]
    /\ WarmFrame
    /\ UNCHANGED cacheVars

\* syncDeviceTime() resolved: then sendZeroHopAdvert()
WarmSyncOk(k) ==
    /\ warm[k] = "syncDeviceTime"
    /\ warm' = [warm EXCEPT ![k] = "sendZeroHopAdvert"]
    /\ WarmFrame
    /\ UNCHANGED <<selfInfo, botName, cacheVars>>

\* sendZeroHopAdvert() resolved: the handler returns
WarmAdvertOk(k) ==
    /\ warm[k] = "sendZeroHopAdvert"
    /\ warm' = [warm EXCEPT ![k] = "done"]
    /\ WarmFrame
    /\ UNCHANGED <<selfInfo, botName, cacheVars>>

\* what a rejection of the awaited call does to a handler run at pc: no
\* try/catch surrounds getSelfInfo(), syncDeviceTime() and
\* sendZeroHopAdvert(), so the handler's promise rejects
warmRejected(pc) ==
    CASE pc = "getSelfInfo" -> "rejected:getSelfInfo"
      [] pc = "syncDeviceTime" -> "rejected:syncDeviceTime"
      [] pc = "sendZeroHopAdvert" -> "rejected:sendZeroHopAdvert"

WarmStepFail(k) ==
    /\ warm[k] \in {"getSelfInfo", "syncDeviceTime", "sendZeroHopAdvert"}
    /\ warm' = [warm EXCEPT ![k] = warmRejected(@)]
    /\ WarmFrame
    /\ UNCHANGED <<selfInfo, botName, cacheVars>>

\* --- timers
Due == timers # <<>> /\ Head(timers).left = 0

\* the reconnect timer's callback: reconnectTimer = null; connectDevice()
FireReconnect ==
    /\ Due
    /\ Head(timers).kind = "reconnect"
    /\ connectDevice([TimerState EXCEPT !.timers = Tail(timers), !.handle = NoTimer])
    /\ UNCHANGED <<cfgVars, deviceExists, launched, isConnected, warmVars, wdForced,
                   cacheVars, queryVars, ingestVars>>

\* the watchdog's callback: if (!isConnected) queueReconnect()
FireWatchdog ==
    /\ Due
    /\ Head(timers).kind = "watchdog"
    /\ SetTimerState(watchdogFired([TimerState EXCEPT !.timers = Tail(timers)], isConnected))
    /\ wdForced' = (wdForced \/ ~isConnected)
    /\ lastOp' = "watchdog"
    /\ UNCHANGED <<cfgVars, deviceExists, launched, isConnected, attempts, budget,
                   skipVars, warmVars, cacheVars, queryVars, ingestVars>>

\* one unit of time passes; due timers fire first
Tick ==
    /\ timers # <<>>
    /\ \A i \in 1..Len(timers) : timers[i].left > 0
    /\ timers' = [i \in 1..Len(timers) |-> [timers[i] EXCEPT !.left = @ - 1]]
    /\ lastOp' = "tick"
    /\ UNCHANGED <<cfgVars, deviceExists, launched, isConnected, reconnectTimer,
                   schedCount, attempts, budget, skipVars, warmVars, wdForced,
                   cacheVars, queryVars, ingestVars>>

\* the device path appears in or vanishes from the file system
DeviceToggles ==
    /\ meshcoreDevice
    /\ deviceExists' = ~deviceExists
    /\ lastOp' = "fs"
    /\ UNCHANGED <<cfgVars, launched, isConnected, tmVars, attempts, budget, skipVars,
                   warmVars, wdForced, cacheVars, queryVars, ingestVars>>

\* The supervisor and its environment.  The continuation of the 'connected'
\* handler after its first await (the Warm actions) reads and writes only
\* warm, selfInfo, botName and the contact cache, which no action below
\* reads; it runs in SpecConnect.
NextSupervisor ==
    \/ Launch
    \/ \E i \in 1..Len(attempts) : ConnectResolves(i)
    \/ \E i \in 1..Len(attempts) : ConnectRejects(i)
    \/ \E i \in 1..Len(attempts) : EvConnected(i)
    \/ \E i \in 1..Len(attempts) : EvDisconnected(i)
    \/ \E i \in 1..Len(attempts) : EvErrorFatal(i)
    \/ \E i \in 1..Len(attempts) : EvErrorTransient(i)
    \/ FireReconnect
    \/ FireWatchdog
    \/ Tick
    \/ DeviceToggles

SpecSupervisor == Init /\ [][NextSupervisor]_vars

\* timers are fair: time passes and a due timer's callback runs; nothing
\* obliges the connection to settle connect() or to emit an event
FairSupervisor ==
    SpecSupervisor /\ WF_vars(Tick) /\ WF_vars(FireReconnect) /\ WF_vars(FireWatchdog)

\* Connecting to a device that emits no 'disconnected' and no 'error' and
\* whose path stays in place: connect() resolves, rejects or hangs, the
\* port opens or not, and the whole 'connected' handler runs.
InitConnect ==
    /\ InitWith(ScenarioConnects)
    /\ NoBot
    /\ adverts = <<>>
    /\ reconnectDelay = Delay
    /\ deviceExists

NextConnect ==
    \/ Launch
    \/ \E i \in 1..Len(attempts) : ConnectResolves(i)
    \/ \E i \in 1..Len(attempts) : ConnectRejects(i)
    \/ \E i \in 1..Len(attempts) : EvConnected(i)
    \/ \E k \in 1..Len(warm) : WarmContactsOk(k)
    \/ \E k \in 1..Len(warm) : WarmContactsFail(k)
    \/ \E k \in 1..Len(warm), name \in DeviceSelfNames : WarmSelfInfoOk(k, name)
    \/ \E k \in 1..Len(warm) : WarmSyncOk(k)
    \/ \E k \in 1..Len(warm) : WarmAdvertOk(k)
    \/ \E k \in 1..Len(warm) : WarmStepFail(k)
    \/ FireReconnect
    \/ FireWatchdog
    \/ Tick

SpecConnect == InitConnect /\ [][NextConnect]_vars

\* ------------------------------------------------ the contact cache alone
\* the identities stored: for each i the key of i bytes 0x01 followed by
\* bytes 0x10, so that every two of them share a prefix; and the prefixes
\* looked up: every prefix of an identity
KeyWith(i) == [j \in 1..KeyLen |-> IF j <= i THEN 1 ELSE 16]
Identities == {KeyWith(i) : i \in 0..KeyLen}
Prefixes == {SubSeq(k, 1, n) : k \in Identities, n \in 0..KeyLen}
DirNames == {Null, "Rover"}
DirLastMods == {10}
\* the contacts handed to the cache; an empty key stands for a contact
\* without publicKey
DirContacts == [publicKey : Identities \cup {<<>>}, advName : DirNames, lastMod : DirLastMods]

dirFrame ==
    UNCHANGED <<reconnectDelay, meshcoreDevice, deviceExists, launched, isConnected,
                reconnectTimer, missingDeviceLogged, timers, attempts, budget, warm,
                selfInfo, botName, schedCount, missingLogs, inSkipRun, wdForced>>

InitDirectory ==
    /\ InitWith(MaxConnects)
    /\ NoBot
    /\ adverts = <<>>
    /\ reconnectDelay = 0
    /\ ~meshcoreDevice

\* cache.cacheContact(contact)
DirCacheContact(contact) ==
    /\ LET cc == cacheContact(Cache, contact) IN
        /\ Len(cc.byKey) <= MaxContacts
        /\ SetCache(cc)
    /\ lastOp' = "cacheContact"
    /\ lastQuery' = <<>>
    /\ lastResult' = <<>>
    /\ lastArg' = contact
    /\ repeat' = (lastOp = "cacheContact" /\ lastArg = contact)
    /\ dirFrame
    /\ UNCHANGED ingestVars

\* cache.getCachedContactByPrefix(prefixBytes)
DirLookupByPrefix(prefixBytes) ==
    /\ lastQuery' = prefixBytes
    /\ lastResult' = getCachedContactByPrefix(Cache, prefixBytes)
    /\ lastOp' = "byPrefix"
    /\ lastArg' = NoContact
    /\ repeat' = FALSE
    /\ dirFrame
    /\ UNCHANGED <<cacheVars, ingestVars>>

\* cache.getCachedContactByPublicKey(publicKeyBytes)
DirLookupByPublicKey(publicKeyBytes) ==
    /\ lastQuery' = publicKeyBytes
    /\ lastResult' = getCachedContactByPublicKey(Cache, publicKeyBytes)
    /\ lastOp' = "byPublicKey"
    /\ lastArg' = NoContact
    /\ repeat' = FALSE
    /\ dirFrame
    /\ UNCHANGED <<cacheVars, ingestVars>>

NextDirectory ==
    \/ \E contact \in DirContacts : DirCacheContact(contact)
    \/ \E prefixBytes \in Prefixes : DirLookupByPrefix(prefixBytes)
    \/ \E publicKeyBytes \in Identities : DirLookupByPublicKey(publicKeyBytes)

SpecDirectory == InitDirectory /\ [][NextDirectory]_vars

\* ------------------------------------ the warm-up read after a reconnect
\* what connection.getContacts() resolves with in the 'connected' handler
\* and the contacts the handlers stored before it: a list of none, one or
\* two contacts, one of them possibly without a key
WarmContacts == [publicKey : Identities \cup {<<>>}, advName : {"Base"}, lastMod : {20}]
WarmLists ==
    {<<>>} \cup {<<c>> : c \in WarmContacts} \cup {<<c, d>> : c, d \in WarmContacts}
StoredBefore == {c \in DirContacts : c.publicKey # <<>> /\ c.advName # Null}

\* the try block of the 'connected' handler: getContacts() resolved with
\* contacts, cache.cacheContacts(contacts)
WarmRead(contacts) ==
    /\ SetCache(cacheContacts(Cache, contacts))
    /\ lastOp' = "warmed"
    /\ lastQuery' = contacts
    /\ lastResult' = <<>>
    /\ lastArg' = NoContact
    /\ repeat' = FALSE
    /\ dirFrame
    /\ UNCHANGED ingestVars

\* the directory as the handlers fill it between the connects, and the
\* warm-up reads of the connects
NextReconnect ==
    \/ \E contact \in StoredBefore : DirCacheContact(contact)
    \/ \E contacts \in WarmLists : WarmRead(contacts)

SpecReconnect == InitDirectory /\ [][NextReconnect]_vars

\* ------------------------------------- the name index and its device fallback
\* names asked for: a stored one, one no contact carries, the empty one
ResolveNames == {"Rover", "Ghost", ""}
\* what connection.getContacts() reports: nothing, one contact, or two
\* contacts of different identity and the same name
FetchLists ==
    LET named == {c \in DirContacts : c.publicKey # <<>> /\ c.advName = "Rover"} IN
    {<<>>} \cup {<<c>> : c \in DirContacts}
           \cup {<<q[1], q[2]>> : q \in {r \in named \X named : r[1].publicKey # r[2].publicKey}}

resolveFrame ==
    /\ lastQuery' = <<>>
    /\ lastResult' = <<>>
    /\ lastArg' = NoContact
    /\ repeat' = FALSE
    /\ dirFrame
    /\ UNCHANGED <<adverts, adv, run, botVars, batchVars>>

\* cache.resolveContactByAdvName(advName, connection) is called
ResolveCall(advName, connection) ==
    /\ call.pc # "fetching"
    /\ call' = resolveStart(Cache, advName, connection)
    /\ lastOp' = "resolve"
    /\ resolveFrame
    /\ UNCHANGED cacheVars

\* its getContacts() resolves
ResolveFetched(contacts) ==
    /\ call.pc = "fetching"
    /\ LET r == resolveFinish(Cache, call, contacts) IN
        /\ Len(r.cache.byKey) <= MaxContacts
        /\ SetCache(r.cache)
        /\ call' = r.call
    /\ lastOp' = "resolve:fetched"
    /\ resolveFrame

\* its getContacts() rejects: the call rejects
ResolveFetchFails ==
    /\ call.pc = "fetching"
    /\ call' = [call EXCEPT !.pc = "rejected"]
    /\ lastOp' = "resolve:failed"
    /\ resolveFrame
    /\ UNCHANGED cacheVars

NextResolve ==
    \/ \E contact \in DirContacts : DirCacheContact(contact)
    \/ \E advName \in ResolveNames, connection \in BOOLEAN : ResolveCall(advName, connection)
    \/ \E contacts \in FetchLists : ResolveFetched(contacts)
    \/ ResolveFetchFails

SpecResolve == InitDirectory /\ [][NextResolve]_vars

\* --------------------------------------------------- index.js: ingestion
\* the identities the ingestion handlers meet
Peers == {KeyWith(i) : i \in 0..MaxPeers}

\* adverts as the device pushes them: a full one and one with the key alone
Adverts ==
    {[publicKey |-> k, type |-> 1, advName |-> "Rover", lastAdvert |-> 5,
      lastMod |-> 200, advLat |-> 0, advLon |-> 1500000] : k \in Peers}
    \cup
    {[publicKey |-> k, type |-> NoNum, advName |-> Null, lastAdvert |-> NoNum,
      lastMod |-> NoNum, advLat |-> NoNum, advLon |-> NoNum] : k \in Peers}

\* the contact the device holds for a key
DeviceContact(k) ==
    [publicKey |-> k, type |-> 2, advName |-> "Base", lastAdvert |-> 3,
     lastMod |-> 100, advLat |-> 450000, advLon |-> 0]

\* what connection.findContactByPublicKeyPrefix(prefix) comes back with
LookupOutcomes(prefix) ==
    {[failed |-> TRUE, contact |-> <<>>], [failed |-> FALSE, contact |-> <<>>]}
    \cup {[failed |-> FALSE, contact |-> <<DeviceContact(k)>>] :
              k \in {i \in Peers : startsWith(i, prefix)}}

\* rows an earlier run of the process left in the adverts table
EarlierRow(k, name) ==
    [publicKey |-> bytesToHex(k), type |-> <<"chat">>, advName |-> <<name>>,
     lastAdvert |-> <<5>>, lastMod |-> <<50>>, advLat |-> <<>>, advLon |-> <<>>]

EarlierTables ==
    {<<>>, <<EarlierRow(KeyWith(0), "Ghost")>>,
     <<EarlierRow(KeyWith(0), "Ghost"), EarlierRow(KeyWith(1), "Ghost")>>}

InitIngest ==
    /\ InitWith(MaxConnects)
    /\ NoBot
    /\ reconnectDelay = 0
    /\ ~meshcoreDevice
    /\ adverts \in EarlierTables

ingestFrame ==
    /\ lastQuery' = <<>>
    /\ lastResult' = <<>>
    /\ lastArg' = NoContact
    /\ repeat' = FALSE
    /\ dirFrame

Pending == {"lookup", "getChannel", "fetching"}

\* steps of the other handlers keep a pending run and drop a finished one
keepRun ==
    /\ run' = IF run.pc \in Pending THEN run ELSE NoRun
    /\ call' = IF call.pc = "fetching" THEN call ELSE NoCall

\* faulty variant: a failing upsert ends the handler before the nudgeBot
advertDone_WriteThrows(advert, contact, lookups, failed, dbOk) ==
    LET n == normalize(advert, contact)
        cc == cacheContact(Cache, [publicKey |-> advert.publicKey,
                                   advName |-> Raw("advName", n.advName),
                                   lastAdvert |-> Raw("lastAdvert", n.lastAdvert),
                                   lastMod |-> Raw("lastMod", n.lastMod)])
    IN
    /\ SetCache(cc)
    /\ adverts' = IF dbOk THEN upsertAdvert(adverts, n) ELSE adverts
    /\ adv' = [pc |-> IF dbOk THEN "done" ELSE "aborted", advert |-> advert,
               contact |-> contact, lookups |-> lookups,
               event |-> IF dbOk THEN <<n>> ELSE <<>>, cached |-> TRUE,
               persisted |-> dbOk, failed |-> failed]

\* onAdvertReceived from the directory lookup on: the six picks, the
\* cacheContact, the upsertAdvert in its try/catch and the nudgeBot
advertDone(advert, contact, lookups, failed, dbOk) ==
    LET n == normalize(advert, contact)
        cc == cacheContact(Cache, [publicKey |-> advert.publicKey,
                                   advName |-> Raw("advName", n.advName),
                                   lastAdvert |-> Raw("lastAdvert", n.lastAdvert),
                                   lastMod |-> Raw("lastMod", n.lastMod)])
    IN
    /\ SetCache(cc)
    /\ adverts' = IF dbOk THEN upsertAdvert(adverts, n) ELSE adverts
    /\ adv' = [pc |-> "done", advert |-> advert, contact |-> contact,
               lookups |-> lookups, event |-> <<n>>, cached |-> TRUE,
               persisted |-> dbOk, failed |-> failed]

\* an Advert or NewAdvert push: onAdvertReceived up to its first await
AdvertReceived(advert, dbOk) ==
    /\ adv.pc # "lookup"
    /\ LET cachedContact == getCachedContactByPublicKey(Cache, advert.publicKey) IN
        IF cachedContact # <<>>
        THEN /\ advertDone(advert, cachedContact, 0, FALSE, dbOk)
             /\ lastOp' = "advert:hit"
        ELSE /\ adv' = [NoAdvertRun EXCEPT !.pc = "lookup", !.advert = advert,
                                           !.lookups = 1]
             /\ lastOp' = "advert:lookup"
             /\ UNCHANGED <<cacheVars, adverts>>
    /\ keepRun
    /\ ingestFrame

\* faulty variant: a rejected device lookup ends the handler
AdvertLookupSettles_Propagates(outcome, dbOk) ==
    /\ adv.pc = "lookup"
    /\ outcome \in LookupOutcomes(adv.advert.publicKey)
    /\ IF outcome.failed
       THEN /\ adv' = [adv EXCEPT !.pc = "aborted", !.failed = TRUE]
            /\ UNCHANGED <<cacheVars, adverts>>
       ELSE advertDone(adv.advert, outcome.contact, adv.lookups, outcome.failed, dbOk)
    /\ lastOp' = "advert:looked"
    /\ keepRun
    /\ ingestFrame

\* the device lookup of a pending advert settles; a rejection is turned
\* into null by the .catch
AdvertLookupSettles(outcome, dbOk) ==
    /\ adv.pc = "lookup"
    /\ outcome \in LookupOutcomes(adv.advert.publicKey)
    /\ advertDone(adv.advert, outcome.contact, adv.lookups, outcome.failed, dbOk)
    /\ lastOp' = "advert:looked"
    /\ keepRun
    /\ ingestFrame

\* the prefixes contact messages carry
MessagePrefixes == {SubSeq(k, 1, 1) : k \in Peers}

ContactMessages ==
    [pubKeyPrefix : MessagePrefixes, senderTimestamp : {7}, text : {<<"ping">>}]

Texts ==
    {<<"Rover", ":", " ", "ping">>, <<"Ghost", ":", "ping">>, <<"Base", ":", " ">>,
     <<":", "ping">>, <<"ping">>}

ChannelMessages == [channelIdx : {0}, senderTimestamp : {7}, text : Texts]

\* what connection.getChannel(channelIdx) comes back with
ChannelOutcomes == {"info", "missing", "rejected"}

\* what connection.getContacts() resolves with
ContactLists == {<<>>, <<DeviceContact(KeyWith(1))>>}

\* steps of the other handlers keep a pending advert and drop a finished one
keepAdvert == adv' = IF adv.pc = "lookup" THEN adv ELSE NoAdvertRun

\* faulty variant: the bot is nudged for an unknown contact as well
contactMessageDone_AlwaysDispatch(message, contact, lookups, dbOk) ==
    LET contactPublicKey ==
            IF contact = <<>> THEN <<>>
            ELSE IF "publicKeyHex" \in DOMAIN contact[1] /\ contact[1].publicKeyHex # <<>>
            THEN <<contact[1].publicKeyHex>>
            ELSE <<bytesToHex(contact[1].publicKey)>>
        cc == IF contact = <<>> THEN Cache ELSE cacheContact(Cache, contact[1])
        row == [publicKey |-> contactPublicKey,
                advName |-> IF contact = <<>> THEN <<>> ELSE orNull(contact[1].advName),
                channelIdx |-> <<>>, channelName |-> <<>>,
                senderTimestamp |-> message.senderTimestamp, text |-> message.text]
    IN
    /\ SetCache(cc)
    /\ run' = [NoRun EXCEPT !.pc = "done", !.kind = "contact", !.message = message,
                            !.contact = contact, !.lookups = lookups, !.dbOk = dbOk,
                            !.saves = 1, !.row = IF dbOk THEN <<row>> ELSE <<>>,
                            !.dispatches = 1,
                            !.event = IF contact = <<>> THEN <<>>
                                      ELSE <<[source |-> "contact",
                                              advName |-> IF contact[1].advName \in {Null, ""}
                                                          THEN "Unknown"
                                                          ELSE contact[1].advName,
                                              text |-> message.text,
                                              publicKey |-> contactPublicKey]>>]

\* onContactMessageReceived once the contact is known or known to be
\* missing: cacheContact and saveMessage in one try/catch, then nudgeBot
\* unless there is no contact
contactMessageDone(message, contact, lookups, dbOk) ==
    LET contactPublicKey ==
            IF contact = <<>> THEN <<>>
            ELSE IF "publicKeyHex" \in DOMAIN contact[1] /\ contact[1].publicKeyHex # <<>>
            THEN <<contact[1].publicKeyHex>>
            ELSE <<bytesToHex(contact[1].publicKey)>>
        cc == IF contact = <<>> THEN Cache ELSE cacheContact(Cache, contact[1])
        row == [publicKey |-> contactPublicKey,
                advName |-> IF contact = <<>> THEN <<>> ELSE orNull(contact[1].advName),
                channelIdx |-> <<>>, channelName |-> <<>>,
                senderTimestamp |-> message.senderTimestamp, text |-> message.text]
    IN
    /\ SetCache(cc)
    /\ run' = [NoRun EXCEPT !.pc = "done", !.kind = "contact", !.message = message,
                            !.contact = contact, !.lookups = lookups, !.dbOk = dbOk,
                            !.saves = 1, !.row = IF dbOk THEN <<row>> ELSE <<>>,
                            !.dispatches = IF contact = <<>> THEN 0 ELSE 1,
                            !.event = IF contact = <<>> THEN <<>>
                                      ELSE <<[source |-> "contact",
                                              advName |-> IF contact[1].advName \in {Null, ""}
                                                          THEN "Unknown"
                                                          ELSE contact[1].advName,
                                              text |-> message.text,
                                              publicKey |-> contactPublicKey]>>]

\* a contact message of the waiting queue: onContactMessageReceived up to
\* its await
ContactMessageReceived(message, dbOk) ==
    /\ run.pc \notin Pending
    /\ LET cached == getCachedContactByPrefix(Cache, message.pubKeyPrefix) IN
        IF cached # <<>>
        THEN /\ contactMessageDone(message, cached, 0, dbOk)
             /\ lastOp' = "contact:hit"
        ELSE /\ run' = [NoRun EXCEPT !.pc = "lookup", !.kind = "contact",
                                     !.message = message, !.lookups = 1]
             /\ lastOp' = "contact:lookup"
             /\ UNCHANGED cacheVars
    /\ keepAdvert
    /\ call' = NoCall
    /\ ingestFrame
    /\ UNCHANGED adverts

\* the device lookup of a contact message settles; a rejection leaves the
\* handler and is logged by the MsgWaiting listener
ContactLookupSettles(outcome, dbOk) ==
    /\ run.pc = "lookup"
    /\ outcome \in LookupOutcomes(run.message.pubKeyPrefix)
    /\ IF outcome.failed
       THEN /\ run' = [run EXCEPT !.pc = "aborted"]
            /\ lastOp' = "contact:aborted"
            /\ UNCHANGED cacheVars
       ELSE /\ contactMessageDone(run.message, outcome.contact, run.lookups, dbOk)
            /\ lastOp' = "contact:looked"
    /\ keepAdvert
    /\ call' = NoCall
    /\ ingestFrame
    /\ UNCHANGED adverts

\* faulty variant: the adverts table is asked whatever the resolution gave
channelMessageDone_AlwaysQuery(cc, channelName, advName, parsedText, resolved, threw, fetched, dbOk) ==
    LET fb == IF advName \in {Null, ""} \/ threw
              THEN [publicKey |-> IF resolved # <<>> THEN <<resolved[1].publicKeyHex>> ELSE <<>>,
                    cache |-> cc]
              ELSE fallback(cc, adverts, advName, dbOk)
        row == [publicKey |-> fb.publicKey,
                advName |-> IF advName = Null THEN <<>> ELSE <<advName>>,
                channelIdx |-> <<run.message.channelIdx>>,
                channelName |-> <<channelName>>,
                senderTimestamp |-> run.message.senderTimestamp,
                text |-> parsedText]
    IN
    /\ SetCache(fb.cache)
    /\ run' = [run EXCEPT !.pc = "done", !.advName = advName, !.contact = resolved,
                          !.fetched = fetched, !.dbOk = dbOk,
                          !.queries = IF advName \in {Null, ""} \/ threw THEN 0 ELSE 1,
                          !.saves = 1, !.row = IF dbOk THEN <<row>> ELSE <<>>,
                          !.dispatches = 1,
                          !.event = <<[source |-> "channel", advName |-> advName,
                                       text |-> parsedText, publicKey |-> fb.publicKey,
                                       channelIdx |-> run.message.channelIdx,
                                       channelName |-> channelName]>>]

\* onChannelMessageReceived from the resolution's outcome on: the adverts
\* fallback when the name is unresolved, saveMessage and nudgeBot, each in
\* its own try/catch. resolved is <<>> when resolveContactByAdvName threw
channelMessageDone(cc, channelName, advName, parsedText, resolved, threw, fetched, dbOk) ==
    LET asked == ~(advName \in {Null, ""} \/ threw \/ resolved # <<>>)
        fb == IF advName \in {Null, ""} \/ threw \/ resolved # <<>>
              THEN [publicKey |-> IF resolved # <<>> THEN <<resolved[1].publicKeyHex>> ELSE <<>>,
                    cache |-> cc]
              ELSE fallback(cc, adverts, advName, dbOk)
        row == [publicKey |-> fb.publicKey,
                advName |-> IF advName = Null THEN <<>> ELSE <<advName>>,
                channelIdx |-> <<run.message.channelIdx>>,
                channelName |-> <<channelName>>,
                senderTimestamp |-> run.message.senderTimestamp,
                text |-> parsedText]
    IN
    /\ SetCache(fb.cache)
    /\ run' = [run EXCEPT !.pc = "done", !.advName = advName, !.contact = resolved,
                          !.fetched = fetched, !.dbOk = dbOk,
                          !.queries = IF asked THEN 1 ELSE 0,
                          !.saves = 1, !.row = IF dbOk THEN <<row>> ELSE <<>>,
                          !.dispatches = 1,
                          !.event = <<[source |-> "channel", advName |-> advName,
                                       text |-> parsedText, publicKey |-> fb.publicKey,
                                       channelIdx |-> run.message.channelIdx,
                                       channelName |-> channelName]>>]

\* a channel message of the waiting queue: onChannelMessageReceived up to
\* its await of connection.getChannel
ChannelMessageReceived(message) ==
    /\ run.pc \notin Pending
    /\ run' = [NoRun EXCEPT !.pc = "getChannel", !.kind = "channel", !.message = message]
    /\ lastOp' = "channel:getChannel"
    /\ keepAdvert
    /\ call' = NoCall
    /\ ingestFrame
    /\ UNCHANGED <<cacheVars, adverts>>

\* getChannel settles. A rejection, and channelInfo.name of a missing
\* channelInfo, throw outside every try/catch of the handler
ChannelInfoSettles(outcome, dbOk) ==
    /\ run.pc = "getChannel"
    /\ IF outcome # "info"
       THEN /\ run' = [run EXCEPT !.pc = "aborted"]
            /\ lastOp' = "channel:aborted"
            /\ call' = NoCall
            /\ UNCHANGED cacheVars
       ELSE LET split == splitText(run.message.text)
                c == resolveStart(Cache, split.advName, TRUE) IN
            IF c.pc = "returned"
            THEN /\ channelMessageDone(Cache, "public", split.advName, split.parsedText,
                                       c.result, FALSE, <<>>, dbOk)
                 /\ call' = IF split.advName \in {Null, ""} THEN NoCall ELSE c
                 /\ lastOp' = "channel:done"
            ELSE /\ run' = [run EXCEPT !.pc = "fetching", !.advName = split.advName]
                 /\ call' = c
                 /\ lastOp' = "channel:fetching"
                 /\ UNCHANGED cacheVars
    /\ keepAdvert
    /\ ingestFrame
    /\ UNCHANGED adverts

\* the getContacts() of the name resolution resolves
ChannelFetchSettles(contacts, dbOk) ==
    /\ run.pc = "fetching"
    /\ LET split == splitText(run.message.text)
           r == resolveFinish(Cache, call, contacts) IN
        /\ channelMessageDone(r.cache, "public", split.advName, split.parsedText,
                              r.call.result, FALSE, contacts, dbOk)
        /\ call' = r.call
    /\ lastOp' = "channel:fetched"
    /\ keepAdvert
    /\ ingestFrame
    /\ UNCHANGED adverts

\* the getContacts() of the name resolution rejects: caught by the handler
ChannelFetchFails(dbOk) ==
    /\ run.pc = "fetching"
    /\ LET split == splitText(run.message.text) IN
        channelMessageDone(Cache, "public", split.advName, split.parsedText,
                           <<>>, TRUE, <<>>, dbOk)
    /\ call' = [call EXCEPT !.pc = "rejected"]
    /\ lastOp' = "channel:fetchFailed"
    /\ keepAdvert
    /\ ingestFrame
    /\ UNCHANGED adverts

\* a handler taken alone: its nudgeBot call is counted, not followed
alone == UNCHANGED <<botVars, batchVars>>

NextAdvert ==
    \/ \E advert \in Adverts : AdvertReceived(advert, TRUE) /\ alone
    \/ \E outcome \in LookupOutcomes(<<>>) : AdvertLookupSettles(outcome, TRUE) /\ alone

\* the advert handler alone, with a working database
SpecAdvert == InitDirectory /\ [][NextAdvert]_vars

NextMessages ==
    \/ \E message \in ContactMessages, dbOk \in BOOLEAN :
            ContactMessageReceived(message, dbOk) /\ alone
    \/ \E outcome \in LookupOutcomes(<<>>), dbOk \in BOOLEAN :
            ContactLookupSettles(outcome, dbOk) /\ alone
    \/ \E message \in ChannelMessages : ChannelMessageReceived(message) /\ alone
    \/ \E outcome \in ChannelOutcomes, dbOk \in BOOLEAN :
            ChannelInfoSettles(outcome, dbOk) /\ alone
    \/ \E contacts \in ContactLists, dbOk \in BOOLEAN :
            ChannelFetchSettles(contacts, dbOk) /\ alone
    \/ \E dbOk \in BOOLEAN : ChannelFetchFails(dbOk) /\ alone

\* the two message handlers over the tables of earlier runs
SpecMessages == InitIngest /\ [][NextMessages]_vars

\* the texts the split is tried on
SplitTokens == {"Rover", ":", " ", "<LF>"}
SplitTexts == UNION {[1..n -> SplitTokens] : n \in 0..MaxTextLen}

\* the split of onChannelMessageReceived, applied to a text
SplitText(text) ==
    /\ lastQuery' = text
    /\ lastResult' = <<splitText(text)>>
    /\ lastOp' = "split"
    /\ dirFrame
    /\ UNCHANGED <<cacheVars, ingestVars, lastArg, repeat>>

NextSplit == \E text \in SplitTexts : SplitText(text)

SpecSplit == InitDirectory /\ [][NextSplit]_vars

\* --------------------------------------------------------- bot.js: nudgeBot
\* what index.js hands to setBotName, and the environments bot.js is loaded in
SelfNames == {"", "Sol-E", "Base", "B.se"}
Envs ==
    {[AI_TRANSLATE_FROM |-> "1", AI_TRANSLATE_TO |-> "2", BOT_CHANNELS |-> "1, 2"],
     [AI_TRANSLATE_FROM |-> "1,", AI_TRANSLATE_TO |-> Undefined, BOT_CHANNELS |-> Undefined],
     [AI_TRANSLATE_FROM |-> " 2 ,x", AI_TRANSLATE_TO |-> "x", BOT_CHANNELS |-> "2"],
     [AI_TRANSLATE_FROM |-> Undefined, AI_TRANSLATE_TO |-> "", BOT_CHANNELS |-> "0,1"]}

RECURSIVE Repeat(_, _)
Repeat(c, n) ==
    IF n = 0 THEN ""
    ELSE LET half == Repeat(c, n \div 2) IN
         half \o half \o (IF n % 2 = 1 THEN c ELSE "")

\* display names and translations around the limit of a payload
LongNames == {Repeat("n", n) : n \in (messageLimit - 3)..(messageLimit + MaxOver)}
Translations ==
    {"", "hello"} \cup {Repeat("t", n) : n \in (messageLimit - 10)..(messageLimit + MaxOver)}

BotTexts == {"", " ", "ping", "labdien", "hey solely there", "hey @Sol-E are you there",
             "hey @[Sol-E]", "@sol-e", "@Base", "@["}

\* the events nudgeBot is called with
BotEvents ==
    [source : {"channel"}, channelIdx : 0..2, advName : {"Rover"},
     text : BotTexts, connection : {TRUE}]
    \cup [source : {"channel"}, channelIdx : {1, 2}, advName : {Null, ""},
          text : {"labdien", "@Base"}, connection : BOOLEAN]
    \cup [source : {"channel"}, channelIdx : {1}, advName : LongNames,
          text : {"labdien"}, connection : {TRUE}]
    \cup [source : {"contact", "advert"}, channelIdx : {NoNum}, advName : {"Rover"},
          text : {"ping"}, connection : {TRUE}]

\* the event onChannelMessageReceived makes of a row (index.js 620-629)
channelEvent(row) ==
    [source |-> "channel", channelIdx |-> row.channelIdx, advName |-> row.advName,
     text |-> row.text, connection |-> TRUE]

\* the rows onChannelMessageReceived has put together when it reaches its
\* saveMessage, their channel, display name and text
BotRows ==
    {[channelIdx |-> event.channelIdx, advName |-> event.advName, text |-> event.text] :
        event \in {e \in BotEvents : e.source = "channel" /\ e.connection}}

AiOutcomes == [ok : {TRUE}, text : Translations] \cup {[ok |-> FALSE, text |-> ""]}

Forwarded == "<forwarded>"   \* translateChannelMessage returned { channelIdx, text }

InitBot ==
    /\ InitWith(MaxConnects)
    /\ adverts = <<>>
    /\ reconnectDelay = 0
    /\ ~meshcoreDevice
    /\ botName \in {setBotName(name) : name \in SelfNames}
    /\ env \in Envs

botFrame ==
    /\ dirFrame
    /\ UNCHANGED <<cacheVars, queryVars, call, adverts, adv, run, env, jobs>>

\* database.saveMessage(row)
saveMessage(table, row) == Append(table, row)

\* faulty variant: a failed relay ends the call without the mention reply
afterRelay_FailureSkipsReply(ns, snt, n, result) ==
    LET event == ns[n].event IN
    IF /\ isAllowedChannel(env, event.channelIdx)
       /\ isBotMentioned(botName, event.text)
       /\ result # "Translation failed"
    THEN IF event.connection
         THEN /\ nudges' = [ns EXCEPT ![n].pc = "reply", ![n].result = result]
              /\ sent' = Append(snt, [by |-> n, kind |-> "reply",
                                      channelIdx |-> event.channelIdx,
                                      text |-> replyText(event.advName, event.text)])
         ELSE /\ nudges' = [ns EXCEPT ![n].pc = "done", ![n].result = result]
              /\ sent' = snt
    ELSE /\ nudges' = [ns EXCEPT ![n].pc = "done", ![n].result = result]
         /\ sent' = snt

\* nudgeBot once translateChannelMessage has returned: the mention reply
\* of handleChannelMessage, or null
afterRelay(ns, snt, n, result) ==
    LET event == ns[n].event IN
    IF isAllowedChannel(env, event.channelIdx) /\ isBotMentioned(botName, event.text)
    THEN IF event.connection
         THEN /\ nudges' = [ns EXCEPT ![n].pc = "reply", ![n].result = result]
              /\ sent' = Append(snt, [by |-> n, kind |-> "reply",
                                      channelIdx |-> event.channelIdx,
                                      text |-> replyText(event.advName, event.text)])
         ELSE /\ nudges' = [ns EXCEPT ![n].pc = "done", ![n].result = result]
              /\ sent' = snt
    ELSE /\ nudges' = [ns EXCEPT ![n].pc = "done", ![n].result = result]
         /\ sent' = snt

\* nudgeBot(event), up to its first pending call, after the calls ns
nudgeBot(ns, snt, event) ==
    LET start == IF event.source = "channel" THEN translateStart(env, event)
                 ELSE [pc |-> "done", result |-> Null]
        called == Append(ns, [event |-> event, pc |-> start.pc, result |-> start.result,
                              aiCalls |-> IF start.pc = "ai" THEN 1 ELSE 0,
                              translated |-> Null, payload |-> Null]) IN
    IF start.pc = "return" THEN afterRelay(called, snt, Len(called), start.result)
    ELSE nudges' = called /\ sent' = snt

\* nudgeBot alone, called by a caller that hands over no connection or an
\* event of another source
NudgeBot(event) ==
    /\ nudges = <<>>
    /\ nudgeBot(nudges, sent, event)
    /\ lastOp' = "nudgeBot"
    /\ botFrame
    /\ UNCHANGED messages

\* the end of onChannelMessageReceived without the nudgeBot
\* faulty variant: the row is saved and the bot is not engaged
ChannelDispatch_SaveOnly(row, dbOk) ==
    /\ nudges = <<>>
    /\ messages' = IF dbOk THEN saveMessage(messages, row) ELSE messages
    /\ UNCHANGED <<nudges, sent>>
    /\ lastOp' = IF dbOk THEN "channel:dispatch" ELSE "channel:saveFailed"
    /\ botFrame

\* the end of onChannelMessageReceived: saveMessage in its try/catch, then
\* nudgeBot in a try/catch of its own
ChannelDispatch(row, dbOk) ==
    /\ nudges = <<>>
    /\ messages' = IF dbOk THEN saveMessage(messages, row) ELSE messages
    /\ nudgeBot(nudges, sent, channelEvent(row))
    /\ lastOp' = IF dbOk THEN "channel:dispatch" ELSE "channel:saveFailed"
    /\ botFrame

\* faulty variant: the payload is sent as soon as the translation is there
AiSettles_SendsAtOnce(n, outcome) ==
    /\ n \in 1..Len(nudges)
    /\ nudges[n].pc = "ai"
    /\ IF ~outcome.ok THEN afterRelay(nudges, sent, n, "Translation failed")
       ELSE IF trim(outcome.text) = "" THEN afterRelay(nudges, sent, n, "Translation empty")
       ELSE /\ nudges' = [nudges EXCEPT
                             ![n].pc = "send",
                             ![n].translated = trim(outcome.text),
                             ![n].payload = relayPayload(nudges[n].event.advName,
                                                         trim(outcome.text))]
            /\ sent' = Append(sent, [by |-> n, kind |-> "relay",
                                     channelIdx |-> destination(env),
                                     text |-> relayPayload(nudges[n].event.advName,
                                                           trim(outcome.text))])
    /\ lastOp' = "queryAiGate"
    /\ botFrame
    /\ UNCHANGED messages

\* queryAiGate settles: 'Translation failed', 'Translation empty', or the
\* payload is composed and wait(10000) starts
AiSettles(n, outcome) ==
    /\ n \in 1..Len(nudges)
    /\ nudges[n].pc = "ai"
    /\ IF ~outcome.ok THEN afterRelay(nudges, sent, n, "Translation failed")
       ELSE IF trim(outcome.text) = "" THEN afterRelay(nudges, sent, n, "Translation empty")
       ELSE /\ nudges' = [nudges EXCEPT
                             ![n].pc = "wait",
                             ![n].translated = trim(outcome.text),
                             ![n].payload = relayPayload(nudges[n].event.advName,
                                                         trim(outcome.text))]
            /\ sent' = sent
    /\ lastOp' = "queryAiGate"
    /\ botFrame
    /\ UNCHANGED messages

\* wait(10000) is over: connection.sendChannelTextMessage(dest, payload)
WaitElapsed(n) ==
    /\ n \in 1..Len(nudges)
    /\ nudges[n].pc = "wait"
    /\ nudges' = [nudges EXCEPT ![n].pc = "send"]
    /\ sent' = Append(sent, [by |-> n, kind |-> "relay", channelIdx |-> destination(env),
                             text |-> nudges[n].payload])
    /\ lastOp' = "wait"
    /\ botFrame
    /\ UNCHANGED messages

\* the send of the relay settles: { channelIdx, text } or 'Translation failed'
RelaySendSettles(n, ok) ==
    /\ n \in 1..Len(nudges)
    /\ nudges[n].pc = "send"
    /\ afterRelay(nudges, sent, n, IF ok THEN Forwarded ELSE "Translation failed")
    /\ lastOp' = "relaySend"
    /\ botFrame
    /\ UNCHANGED messages

\* the send of the mention reply settles; a rejection is caught and logged
ReplySendSettles(n, ok) ==
    /\ n \in 1..Len(nudges)
    /\ nudges[n].pc = "reply"
    /\ nudges' = [nudges EXCEPT ![n].pc = "done"]
    /\ sent' = sent
    /\ lastOp' = "replySend"
    /\ botFrame
    /\ UNCHANGED messages

NextBot ==
    \/ \E row \in BotRows, dbOk \in BOOLEAN : ChannelDispatch(row, dbOk)
    \/ \E event \in {e \in BotEvents : e.source # "channel" \/ ~e.connection} :
            NudgeBot(event)
    \/ \E outcome \in AiOutcomes : AiSettles(1, outcome)
    \/ WaitElapsed(1)
    \/ \E ok \in BOOLEAN : RelaySendSettles(1, ok)
    \/ \E ok \in BOOLEAN : ReplySendSettles(1, ok)

SpecBot == InitBot /\ [][NextBot]_vars

\* ------------------------------------------ index.js: the push listeners
\* Each MsgWaiting push starts a run of the listener: the emitter does not
\* wait for the promise of an earlier run. A run handles its messages one
\* after the other and awaits each handler, its nudgeBot included. The
\* handlers share the record run: a run starts its next handler when no
\* handler of another run is waiting for the device.
BatchEnv == [AI_TRANSLATE_FROM |-> "1", AI_TRANSLATE_TO |-> "2", BOT_CHANNELS |-> "1, 2"]

\* what connection.getWaitingMessages() resolves with
WaitingMessages ==
    {[contactMessage |-> <<m>>, channelMessage |-> <<>>] :
        m \in {c \in ContactMessages : c.pubKeyPrefix = SubSeq(KeyWith(0), 1, 1)}}
    \cup {[contactMessage |-> <<>>,
           channelMessage |-> <<[channelIdx |-> 1, senderTimestamp |-> 7, text |-> t]>>] :
             t \in {<<"Rover", ":", " ", "labdien">>, <<"@Base">>}}
Batches ==
    UNION {[1..n -> {w \in WaitingMessages :
                        w.channelMessage = <<>> \/ w.channelMessage[1].text # <<"@Base">>}] :
             n \in 1..MaxBatch}

InitBatch ==
    /\ InitWith(MaxConnects)
    /\ adverts = <<>>
    /\ reconnectDelay = 0
    /\ ~meshcoreDevice
    /\ botName = "Base"
    /\ env = BatchEnv

\* the text of a sequence of tokens
RECURSIVE concat(_)
concat(tokens) == IF tokens = <<>> THEN "" ELSE Head(tokens) \o concat(Tail(tokens))

\* the arguments of a nudgeBot call of index.js as bot.js reads them
botEvent(event) ==
    [source |-> event.source,
     channelIdx |-> IF event.source = "channel" THEN event.channelIdx ELSE NoNum,
     advName |-> IF event.source = "advert" THEN Raw("advName", event.advName)
                 ELSE event.advName,
     text |-> IF event.source = "advert" THEN Null ELSE concat(event.text),
     connection |-> event.source = "channel"]

\* await nudgeBot(event) as its caller sees it: the call of bot.js, or a
\* call that throws
engage(event, botOk) ==
    IF botOk THEN nudgeBot(nudges, sent, botEvent(event))
    ELSE /\ nudges' = Append(nudges, [event |-> botEvent(event), pc |-> "threw",
                                      result |-> Null, aiCalls |-> 0,
                                      translated |-> Null, payload |-> Null])
         /\ sent' = sent

\* the for loop of the listener goes on to its next message
advance(js, j) ==
    LET rest == Tail(js[j].queue) IN
    [js EXCEPT ![j].queue = rest, ![j].pc = IF rest = <<>> THEN "done" ELSE "next"]

\* faulty variant: the handler does not wait for its nudgeBot call
handled_NoAwait(j, botOk) ==
    /\ env' = env
    /\ IF run'.pc = "done"
       THEN /\ messages' = messages \o run'.row
            /\ IF run'.dispatches = 1 THEN engage(run'.event[1], botOk)
               ELSE UNCHANGED <<nudges, sent>>
            /\ LET logged == [jobs EXCEPT ![j].log =
                                 Append(@, [kind |-> run'.kind, dbOk |-> run'.dbOk,
                                            known |-> run'.contact # <<>>,
                                            saved |-> run'.row # <<>>,
                                            nudge |-> IF run'.dispatches = 1
                                                      THEN Len(nudges') ELSE 0])] IN
               jobs' = advance(logged, j)
       ELSE /\ UNCHANGED <<nudges, sent, messages>>
            /\ jobs' = [jobs EXCEPT ![j].pc = IF run'.pc = "aborted" THEN "caught"
                                              ELSE "handling"]

\* the listener run j after a step of the handler of its message: the
\* handler waits for the device, has thrown into the catch of the listener,
\* or has saved its row and engaged the bot
handled(j, botOk) ==
    /\ env' = env
    /\ IF run'.pc = "done"
       THEN /\ messages' = messages \o run'.row
            /\ IF run'.dispatches = 1 THEN engage(run'.event[1], botOk)
               ELSE UNCHANGED <<nudges, sent>>
            /\ LET logged == [jobs EXCEPT ![j].log =
                                 Append(@, [kind |-> run'.kind, dbOk |-> run'.dbOk,
                                            known |-> run'.contact # <<>>,
                                            saved |-> run'.row # <<>>,
                                            nudge |-> IF run'.dispatches = 1
                                                      THEN Len(nudges') ELSE 0])]
                   last == nudges'[Len(nudges')] IN
               jobs' = IF run'.dispatches = 0 THEN advance(logged, j)
                       ELSE IF last.pc = "threw"
                       THEN IF run'.kind = "contact"
                            THEN [logged EXCEPT ![j].pc = "caught"]
                            ELSE advance(logged, j)
                       ELSE IF last.pc = "done" THEN advance(logged, j)
                       ELSE [logged EXCEPT ![j].pc = "awaitBot"]
       ELSE /\ UNCHANGED <<nudges, sent, messages>>
            /\ jobs' = [jobs EXCEPT ![j].pc = IF run'.pc = "aborted" THEN "caught"
                                              ELSE "handling"]

\* a MsgWaiting push: getWaitingMessages resolves with a batch
MsgWaiting(batch) ==
    /\ Len(jobs) < MaxJobs
    /\ jobs' = Append(jobs, [pc |-> "next", batch |-> batch, queue |-> batch, log |-> <<>>])
    /\ lastOp' = "MsgWaiting"
    /\ dirFrame
    /\ UNCHANGED <<cacheVars, queryVars, call, adverts, adv, run, botVars, messages>>

\* faulty variant: a run waits for the relays of the earlier runs
JobNext_SingleFlight(j, dbOk, botOk) ==
    /\ j \in 1..Len(jobs)
    /\ jobs[j].pc = "next"
    /\ \A n \in 1..Len(nudges) : nudges[n].pc \in {"done", "threw"}
    /\ \A k \in 1..Len(jobs) : jobs[k].pc # "handling"
    /\ LET message == Head(jobs[j].queue) IN
        IF message.contactMessage # <<>>
        THEN ContactMessageReceived(message.contactMessage[1], dbOk)
        ELSE ChannelMessageReceived(message.channelMessage[1])
    /\ handled(j, botOk)

\* the loop of run j calls the handler of its next message
JobNext(j, dbOk, botOk) ==
    /\ j \in 1..Len(jobs)
    /\ jobs[j].pc = "next"
    /\ \A k \in 1..Len(jobs) : jobs[k].pc # "handling"
    /\ LET message == Head(jobs[j].queue) IN
        IF message.contactMessage # <<>>
        THEN ContactMessageReceived(message.contactMessage[1], dbOk)
        ELSE ChannelMessageReceived(message.channelMessage[1])
    /\ handled(j, botOk)

\* a device call the handler of run j waits for settles
JobSettles(j, dbOk, botOk) ==
    /\ j \in 1..Len(jobs)
    /\ jobs[j].pc = "handling"
    /\ \/ \E outcome \in LookupOutcomes(<<>>) : ContactLookupSettles(outcome, dbOk)
       \/ \E outcome \in ChannelOutcomes : ChannelInfoSettles(outcome, dbOk)
       \/ \E contacts \in {<<>>} : ChannelFetchSettles(contacts, dbOk)
       \/ ChannelFetchFails(dbOk)
    /\ handled(j, botOk)

\* the nudgeBot call run j waits for has returned
BotReturns(j) ==
    /\ j \in 1..Len(jobs)
    /\ jobs[j].pc = "awaitBot"
    /\ nudges[jobs[j].log[Len(jobs[j].log)].nudge].pc = "done"
    /\ jobs' = advance(jobs, j)
    /\ lastOp' = "nudgeBot:returned"
    /\ dirFrame
    /\ UNCHANGED <<cacheVars, queryVars, call, adverts, adv, run, botVars, messages>>

\* an advert push and the settling of its device lookup, in the listener
\* of the advert pushes: the nudgeBot call follows the upsert
AdvertPush(advert, dbOk, botOk) ==
    /\ AdvertReceived(advert, dbOk)
    /\ IF adv'.pc = "done" THEN engage([source |-> "advert"] @@ adv'.event[1], botOk)
       ELSE UNCHANGED <<nudges, sent>>
    /\ UNCHANGED <<env, batchVars>>

AdvertPushSettles(outcome, dbOk, botOk) ==
    /\ AdvertLookupSettles(outcome, dbOk)
    /\ IF adv'.pc = "done" THEN engage([source |-> "advert"] @@ adv'.event[1], botOk)
       ELSE UNCHANGED <<nudges, sent>>
    /\ UNCHANGED <<env, batchVars>>

BatchAi == {[ok |-> TRUE, text |-> "hello"], [ok |-> FALSE, text |-> ""]}

\* one run of the listener over a batch, or one advert: every device
\* call, database write and nudgeBot call may fail
NextBatch ==
    \/ \E batch \in Batches : jobs = <<>> /\ lastOp = "init" /\ MsgWaiting(batch)
    \/ \E dbOk \in BOOLEAN, botOk \in BOOLEAN : JobNext(1, dbOk, botOk)
    \/ \E dbOk \in BOOLEAN, botOk \in BOOLEAN : JobSettles(1, dbOk, botOk)
    \/ BotReturns(1)
    \/ \E n \in 1..MaxBatch, outcome \in BatchAi : AiSettles(n, outcome)
    \/ \E n \in 1..MaxBatch : WaitElapsed(n)
    \/ \E n \in 1..MaxBatch, ok \in BOOLEAN : RelaySendSettles(n, ok)
    \/ \E advert \in {a \in Adverts : a.advName # Null /\ a.publicKey = KeyWith(0)},
          dbOk \in BOOLEAN, botOk \in BOOLEAN :
            jobs = <<>> /\ lastOp = "init" /\ AdvertPush(advert, dbOk, botOk)
    \/ \E outcome \in LookupOutcomes(<<>>), dbOk \in BOOLEAN, botOk \in BOOLEAN :
            AdvertPushSettles(outcome, dbOk, botOk)

SpecBatch == InitBatch /\ [][NextBatch]_vars

\* pushes of one channel message each, with the device, the database and
\* the AI service working: the runs of the listener side by side
ChannelPushes ==
    {<<m>> : m \in {w \in WaitingMessages : w.channelMessage # <<>>}}

NextRelays ==
    \/ \E batch \in ChannelPushes : MsgWaiting(batch)
    \/ \E j \in 1..MaxJobs : JobNext(j, TRUE, TRUE)
    \/ \E j \in 1..MaxJobs : JobSettles(j, TRUE, TRUE) /\ run'.pc = "done"
    \/ \E j \in 1..MaxJobs : BotReturns(j)
    \/ \E n \in 1..MaxJobs : AiSettles(n, [ok |-> TRUE, text |-> "hello"])
    \/ \E n \in 1..MaxJobs : WaitElapsed(n)
    \/ \E n \in 1..MaxJobs : RelaySendSettles(n, TRUE)
    \/ \E n \in 1..MaxJobs : ReplySendSettles(n, TRUE)

SpecRelays == InitBatch /\ [][NextRelays]_vars

\* ------------------------------------- server.js / index.js: the HTTP API
\* what a handler returns: a message, the error text of a caught error, and
\* the data of a success
Reply(message, error, data) == [message |-> message, error |-> error, data |-> data]

\* a string of hex digits, as /^[0-9a-f]+$/ tests it
isHex(s) ==
    /\ s # ""
    /\ \A i \in 1..Len(s) : \E d \in 1..Len(HexDigits) : HexDigits[d] = charAt(s, i)

\* the lower-case letters of a string
lowerCase(s) ==
    LET RECURSIVE from(_)
        from(i) == IF i > Len(s) THEN "" ELSE toLower(charAt(s, i)) \o from(i + 1) IN
    from(1)

\* apiJoinPrivateChannel(params); device is what getChannels and setChannel do
apiJoinPrivateChannel(params, device) ==
    LET channelName == trim(params.channelName)
        secretHexRaw == trim(params.secretKey)
        stripped == IF Len(secretHexRaw) >= 2 /\ SubSeq(secretHexRaw, 1, 2) = "0x"
                    THEN SubSeq(secretHexRaw, 3, Len(secretHexRaw)) ELSE secretHexRaw
        secretHex == lowerCase(stripped) IN
    IF channelName = "" THEN Reply("Invalid channelName", Null, Null)
    ELSE IF secretHexRaw = "" THEN Reply("Invalid secretKey", Null, Null)
    ELSE IF Len(secretHex) % 2 # 0 \/ ~isHex(secretHex)
    THEN Reply("Secret key must be a valid hex string", Null, Null)
    ELSE IF Len(secretHex) \div 2 # SecretBytes
    THEN Reply("Secret key must be 16 bytes (32 hex characters)", Null, Null)
    ELSE IF device = "throws" THEN Reply("Join private channel failed", "device", Null)
    ELSE IF device = "full" THEN Reply("No available channel slots", Null, Null)
    ELSE Reply(Null, Null, secretHex)

\* apiRemoveChannel(params)
apiRemoveChannel(params, device) ==
    IF params.channelIdx = NoNum \/ params.channelIdx < 0
    THEN Reply("Invalid channelIdx", Null, Null)
    ELSE IF device = "throws" THEN Reply("Remove channel failed", "device", Null)
    ELSE Reply("Channel removed", Null, "removed")

\* apiReboot(params)
apiReboot(params, device) ==
    IF device = "throws" THEN Reply("Device reboot failed", "device", Null)
    ELSE Reply("Device reboot command sent", Null, "sent")

\* the properties of the actions object that are functions: the handlers
\* of actionHandlers and what the object inherits
ActionFunctions ==
    {"apiJoinPrivateChannel", "apiRemoveChannel", "apiReboot", "toString", "hasOwnProperty"}

\* a response that is JSON
Json(status, ok, error, result) ==
    [status |-> status, ok |-> ok, error |-> error, result |-> result]
\* no response: the promise of handleRequest rejects and nobody handles it
Unhandled == [status |-> 0, ok |-> FALSE, error |-> "<unhandledRejection>",
              result |-> Reply(Null, Null, Null)]

\* the handler is called as a plain function and awaited without try/catch;
\* hasOwnProperty called without a receiver throws
handleAction(body, device) ==
    IF body.invalidJson THEN Json(400, FALSE, "Invalid JSON", Reply(Null, Null, Null))
    ELSE IF body.action \in {Null, ""}
    THEN Json(400, FALSE, "Missing action", Reply(Null, Null, Null))
    ELSE IF body.action \notin ActionFunctions
    THEN Json(400, FALSE, "Unknown action", Reply(Null, Null, Null))
    ELSE IF body.action = "hasOwnProperty" THEN Unhandled
    ELSE LET result ==
                 CASE body.action = "apiJoinPrivateChannel" ->
                          apiJoinPrivateChannel(body.params, device)
                   [] body.action = "apiRemoveChannel" -> apiRemoveChannel(body.params, device)
                   [] body.action = "apiReboot" -> apiReboot(body.params, device)
                   [] OTHER -> Reply(Null, Null, "[object Undefined]") IN
         Json(200, TRUE, Null, result)

\* HttpServer.handleRequest(req, res) for the requests that are not GET
handleRequest(req, device) ==
    IF req.method = "POST"
    THEN IF req.path # "/api" THEN Json(404, FALSE, "Not Found", Reply(Null, Null, Null))
         ELSE handleAction(req.body, device)
    ELSE [status |-> 405, ok |-> FALSE, error |-> "Method Not Allowed",
          result |-> Reply(Null, Null, Null)]

\* the requests made of the API
NoParams == [channelName |-> "", secretKey |-> "", channelIdx |-> NoNum]
Secrets == {"", "zz", "abc", "00ff", Repeat("aB", SecretBytes), "0x" \o Repeat("0f", SecretBytes)}
Bodies ==
    {[invalidJson |-> TRUE, action |-> Null, params |-> NoParams]}
    \cup [invalidJson : {FALSE},
          action : {Null, "nope", "apiReboot", "toString", "hasOwnProperty"},
          params : {NoParams}]
    \cup [invalidJson : {FALSE}, action : {"apiJoinPrivateChannel"},
          params : [channelName : {"", "room"}, secretKey : Secrets, channelIdx : {NoNum}]]
    \cup [invalidJson : {FALSE}, action : {"apiRemoveChannel"},
          params : [channelName : {""}, secretKey : {""}, channelIdx : {NoNum, -2, 0}]]
Requests == [method : {"POST", "PUT"}, path : {"/api", "/other"}, body : Bodies]
DeviceCalls == {"ok", "throws", "full"}

\* a request is answered
HttpRequest(req, device) ==
    /\ lastQuery' = [req |-> req, device |-> device]
    /\ lastResult' = <<handleRequest(req, device)>>
    /\ lastOp' = "http"
    /\ dirFrame
    /\ UNCHANGED <<cacheVars, ingestVars, lastArg, repeat>>

NextControl == \E req \in Requests, device \in DeviceCalls : HttpRequest(req, device)

SpecControl == InitDirectory /\ [][NextControl]_vars

\* no handler is waiting for the device
Quiet == adv.pc # "lookup" /\ run.pc \notin Pending

\* all three handlers with a working database, started one at a time, over
\* the adverts that carry every field and the channel texts that name a
\* peer of the tables or of the device
NextIngest ==
    \/ \E advert \in {a \in Adverts : a.advName # Null} :
            Quiet /\ AdvertReceived(advert, TRUE) /\ alone
    \/ \E outcome \in LookupOutcomes(<<>>) : AdvertLookupSettles(outcome, TRUE) /\ alone
    \/ \E message \in ContactMessages :
            Quiet /\ ContactMessageReceived(message, TRUE) /\ alone
    \/ \E outcome \in LookupOutcomes(<<>>) : ContactLookupSettles(outcome, TRUE) /\ alone
    \/ \E message \in {m \in ChannelMessages : m.text[1] \in {"Ghost", "Base"}} :
            Quiet /\ ChannelMessageReceived(message) /\ alone
    \/ \E outcome \in ChannelOutcomes : ChannelInfoSettles(outcome, TRUE) /\ alone
    \/ \E contacts \in ContactLists : ChannelFetchSettles(contacts, TRUE) /\ alone
    \/ ChannelFetchFails(TRUE) /\ alone

SpecIngest == InitIngest /\ [][NextIngest]_vars

\* =================================================================== claims
FaultOps == {"reject", "disconnected", "error"}
ConnectedOps == {"connected", "connected+pending"}
RejectedPcs == {"rejected:getSelfInfo", "rejected:syncDeviceTime", "rejected:sendZeroHopAdvert"}

\* C1: at most one reconnect timer is pending after every step, and a
\* queueReconnect request made while a reconnect timer is pending (by a
\* rejected connect(), a 'disconnected' or 'error' event, or the watchdog)
\* changes nothing: no second timer, same handle, same deadline.
C1_ReconnectIdempotent ==
    [][ /\ NumReconnect(timers') <= 1
        /\ (lastOp' \in FaultOps /\ NumReconnect(timers) = 1)
              => (timers' = timers /\ reconnectTimer' = reconnectTimer)
        /\ (lastOp' = "watchdog" /\ NumReconnect(timers) = 1)
              => (/\ ReconnectTimers(timers') = ReconnectTimers(timers)
                  /\ reconnectTimer' = reconnectTimer)
      ]_vars

\* a fault asked for a reconnect while the timer was already running
C1_Witness ==
    /\ lastOp \in FaultOps
    /\ NumReconnect(timers) = 1
    /\ \E i \in 1..Len(timers) : IsReconnect(timers[i]) /\ timers[i].left < reconnectDelay

\* C2: with a reconnect delay configured, a rejected connect(), a
\* 'disconnected' event and an 'error' event each leave exactly one
\* reconnect timer pending and call connect() themselves not at all; the
\* events leave the state Disconnected; and connect() is only ever called
\* by the launch or by the callback of a due reconnect timer.
C2_FaultSchedulesOneReconnect ==
    [][ reconnectDelay # 0 =>
          /\ lastOp' \in FaultOps
                => (/\ NumReconnect(timers') = 1
                    /\ reconnectTimer' \in TimerIds(ReconnectTimers(timers'))
                    /\ Len(attempts') = Len(attempts))
          /\ lastOp' \in {"disconnected", "error"} => ~isConnected'
          /\ Len(attempts') > Len(attempts)
                => (~launched \/ (Due /\ Head(timers).kind = "reconnect"))
      ]_vars

\* two connect() calls in a row were rejected and one timer is pending
C2_Witness ==
    /\ reconnectDelay # 0
    /\ lastOp = "reject"
    /\ Len(attempts) = 2
    /\ \A i \in 1..2 : attempts[i].promise = "rejected"
    /\ NumReconnect(timers) = 1

\* C3: whenever a connect attempt has been issued and the state is not
\* Connected, a timer is pending that forces a reconnect attempt once the
\* delay has passed, also while connect() has neither resolved nor rejected.
C3_WatchdogCoversEveryAttempt ==
    (reconnectDelay # 0 /\ attempts # <<>> /\ ~isConnected) => timers # <<>>

\* C4: while a reconnect delay is configured, from every state that is not
\* Connected the supervisor eventually runs connectDevice again (calling
\* connect() or skipping it for a missing device path) or becomes Connected,
\* as long as the explored number of connect() calls is not used up.
C4_NeverFatal ==
    \A n \in 0..MaxConnects :
        [](  (launched /\ reconnectDelay # 0 /\ ~isConnected /\ Len(attempts) = n)
             => <>(isConnected \/ Len(attempts) > n \/ budget = 0 \/ lastOp = "skip"))

\* C5 as stated: without a reconnect delay no timer is ever scheduled,
\* connect() is called exactly once, at launch, and a fault leaves the
\* supervisor Disconnected.
C5_ExactlyOneConnect ==
    (reconnectDelay = 0 /\ launched) =>
        /\ timers = <<>>
        /\ schedCount = 0
        /\ Len(attempts) = 1
        /\ lastOp \in FaultOps => ~isConnected

\* a fault has happened and the state is Disconnected
Faulted ==
    /\ ~isConnected
    /\ Len(warm) >= 1 \/ \E i \in 1..Len(attempts) : attempts[i].port = "gone"

\* C5 amended: without a reconnect delay no reconnect timer and no watchdog
\* is ever scheduled, connect() is called at most once and only by the
\* launch (not at all when the device path is missing at launch), and after
\* a fault the supervisor stays Disconnected.
C5_Terminal ==
    [][ reconnectDelay = 0 =>
          /\ timers' = <<>>
          /\ schedCount' = 0
          /\ reconnectTimer' = NoTimer
          /\ Len(attempts') <= 1
          /\ Len(attempts') > Len(attempts) => ~launched
          /\ lastOp' \in FaultOps => ~isConnected'
          /\ Faulted => ~isConnected'
      ]_vars

\* a connection that was up has been lost and nothing is scheduled
C5_Witness ==
    /\ reconnectDelay = 0
    /\ lastOp = "disconnected"
    /\ ~isConnected
    /\ timers = <<>>

\* C6: right after the synchronous head of the 'connected' handler, with
\* the handler waiting in its first warm-up call, the state is Connected,
\* the missing-device flag is reset, the reconnectTimer handle is null and
\* no reconnect timer is left pending to call connectDevice.
C6_ConnectedHead ==
    lastOp \in ConnectedOps =>
        /\ isConnected
        /\ ~missingDeviceLogged
        /\ reconnectTimer = NoTimer
        /\ NumReconnect(timers) = 0
        /\ warm # <<>> /\ warm[Len(warm)] = "getContacts"

\* 'connected' arrived while a reconnect timer was pending
C6_Witness ==
    /\ lastOp = "connected+pending"
    /\ schedCount >= 1
    /\ isConnected

\* C7: no run of the 'connected' handler ends with a rejection leaving
\* the handler, and a warm-up failure leaves the state Connected.
C7_WarmUpFailuresCaught ==
    /\ escaped = 0
    /\ lastOp = "warm" => isConnected

\* Scenario A: the first two connect() calls were rejected, the third
\* resolved, and no watchdog found the state not Connected
ScenarioA ==
    /\ Len(attempts) >= 3
    /\ attempts[1].promise = "rejected"
    /\ attempts[2].promise = "rejected"
    /\ attempts[3].promise = "resolved"
    /\ ~wdForced

\* C8: in Scenario A exactly 2 reconnect timers have been scheduled and
\* exactly 3 connect() calls made; once the port is open the state is
\* Connected, no reconnect timer is pending, getContacts has been called
\* exactly once and syncDeviceTime at most once, exactly once when the
\* handler has finished.
C8_ScenarioA ==
    ScenarioA =>
        /\ schedCount = 2
        /\ connectCalls = 3
        /\ attempts[3].port = "open" =>
              /\ isConnected
              /\ NumReconnect(timers) = 0
              /\ getContactsCalls = 1
              /\ syncCalls <= 1
              /\ warm[1] = "done" => syncCalls = 1

\* Scenario A has run to its end: the handler is done, the watchdog has
\* fired and found the state Connected
C8_Witness ==
    /\ ScenarioA
    /\ warm = <<"done">>
    /\ timers = <<>>
    /\ lastOp = "watchdog"

\* C9: a connectDevice run that finds the configured device path missing
\* calls connect() not at all, leaves exactly one reconnect timer pending
\* with the full delay when a delay is configured, and logs 'device path
\* not found' only when it is the first such run since the last
\* 'connected' or the last connect() call; the line is logged at most once
\* between two 'connected' events.
C9_MissingDevice ==
    [][ /\ (meshcoreDevice /\ ~deviceExists) => Len(attempts') = Len(attempts)
        /\ missingLogs' <= 1
        /\ lastOp' = "skip" =>
              /\ meshcoreDevice /\ ~deviceExists
              /\ missingDeviceLogged'
              /\ missingLogs' > missingLogs => ~inSkipRun
              /\ reconnectDelay # 0 =>
                    /\ reconnectTimer' # NoTimer
                    /\ ReconnectTimers(timers') =
                          <<[id |-> reconnectTimer', kind |-> "reconnect", left |-> reconnectDelay]>>
      ]_vars

\* the second of two runs that found the path missing: logged once
C9_Witness ==
    /\ lastOp = "skip"
    /\ attempts = <<>>
    /\ schedCount >= 2
    /\ missingLogs = 1

\* byte-prefix relation on keys, and the cache entries it selects
IsBytePrefix(p, k) == Len(p) <= Len(k) /\ \A i \in 1..Len(p) : p[i] = k[i]
PrefixHits(p) == {i \in 1..Len(byKey) : IsBytePrefix(p, byKey[i].contact.publicKey)}
ProfileAt(i) ==
    [publicKey |-> byKey[i].contact.publicKey, advName |-> byKey[i].contact.advName,
     lastMod |-> byKey[i].contact.lastMod, publicKeyHex |-> byKey[i].key]

\* C10 as stated: a prefix lookup returns the profile of every stored
\* identity that the prefix is a byte-prefix of.
C10_PrefixContainment ==
    lastOp = "byPrefix" =>
        \A i \in PrefixHits(lastQuery) : lastResult = <<ProfileAt(i)>>

\* C10 amended: a prefix lookup returns the profile of the stored identity
\* that comes first in insertion order among those the prefix is a
\* byte-prefix of (so the profile of I when I is the only one), and null
\* when there is none.
C10_PrefixFirstMatch ==
    lastOp = "byPrefix" =>
        IF PrefixHits(lastQuery) = {} THEN lastResult = <<>>
        ELSE \E i \in PrefixHits(lastQuery) :
                /\ \A j \in PrefixHits(lastQuery) : i <= j
                /\ lastResult = <<ProfileAt(i)>>
                /\ lastResult[1].publicKeyHex = bytesToHex(byKey[i].contact.publicKey)

\* a proper prefix shared by two stored identities was looked up
C10_Witness ==
    /\ lastOp = "byPrefix"
    /\ Len(lastQuery) = 1
    /\ Cardinality(PrefixHits(lastQuery)) = 2
    /\ lastResult # <<>>

\* the profile the last cacheContact call was given, as the lookups return it
UpsertedProfile ==
    [publicKey |-> lastArg.publicKey, advName |-> lastArg.advName,
     lastMod |-> lastArg.lastMod, publicKeyHex |-> bytesToHex(lastArg.publicKey)]
\* the step is the second of two cacheContact calls with the same profile
SecondUpsert == lastOp' = "cacheContact" /\ repeat' /\ lastArg'.publicKey # <<>>
\* the prefixes of the identity of the last cacheContact call
UpsertedPrefixes == {p \in Prefixes : IsBytePrefix(p, lastArg.publicKey)}
\* those among them that no identity stored earlier starts with
OwnPrefixes ==
    {p \in UpsertedPrefixes :
        \A i \in PrefixHits(p) : \A j \in 1..Len(byKey) :
            byKey[j].contact.publicKey = lastArg.publicKey => j <= i}

\* C11 as stated: the second upsert of the same profile leaves the
\* directory as it was, and lookupByIdentity and lookupByPrefix (for every
\* prefix of the identity) return after it what they returned before it,
\* the upserted profile.
C11_UpsertTwice ==
    [][ SecondUpsert =>
          /\ byKey' = byKey /\ byName' = byName
          /\ getCachedContactByPublicKey(Cache', lastArg'.publicKey) = <<UpsertedProfile'>>
          /\ getCachedContactByPublicKey(Cache, lastArg'.publicKey) = <<UpsertedProfile'>>
          /\ \A p \in UpsertedPrefixes' :
                /\ getCachedContactByPrefix(Cache', p) = getCachedContactByPrefix(Cache, p)
                /\ getCachedContactByPrefix(Cache', p) = <<UpsertedProfile'>>
      ]_vars

\* C11 amended: the second upsert of the same profile leaves the directory
\* as it was; lookupByIdentity returns the upserted profile after the first
\* and after the second upsert; lookupByPrefix returns for every prefix what
\* it returned before, and that is the upserted profile for every prefix of
\* its identity that no identity stored earlier starts with (the whole
\* identity among them).
C11_UpsertIdempotent ==
    [][ SecondUpsert =>
          /\ byKey' = byKey /\ byName' = byName
          /\ getCachedContactByPublicKey(Cache', lastArg'.publicKey) = <<UpsertedProfile'>>
          /\ getCachedContactByPublicKey(Cache, lastArg'.publicKey) = <<UpsertedProfile'>>
          /\ \A p \in Prefixes :
                getCachedContactByPrefix(Cache', p) = getCachedContactByPrefix(Cache, p)
          /\ lastArg'.publicKey \in OwnPrefixes'
          /\ \A p \in OwnPrefixes' :
                getCachedContactByPrefix(Cache', p) = <<UpsertedProfile'>>
      ]_vars

\* a named profile was upserted twice into a directory that holds another
\* identity
C11_Witness ==
    /\ lastOp = "cacheContact"
    /\ repeat
    /\ lastArg.publicKey # <<>>
    /\ lastArg.advName # Null
    /\ Len(byKey) = 2

\* the entry the name index has to hold for the last cacheContact call
NamedProfile ==
    [publicKey |-> lastArg.publicKey, advName |-> lastArg.advName,
     lastMod |-> lastArg.lastMod, publicKeyHex |-> bytesToHex(lastArg.publicKey)]

\* C12: resolveContactByAdvName(X), called after a profile B with name X was
\* upserted, returns B's data at once and fetches nothing from the device,
\* whatever other identity carried the name X before.
C12_NameLastWriteWins ==
    [][ (/\ lastOp = "cacheContact"
         /\ lastArg.publicKey # <<>>
         /\ lastArg.advName \notin {Null, ""}
         /\ lastOp' = "resolve"
         /\ call'.name = lastArg.advName)
        => /\ call'.pc = "returned"
           /\ call'.result = <<NamedProfile>>
           /\ call'.fetches = 0
      ]_vars

\* A was stored with the name first, B with the same name after it, and the
\* call returned B's data
C12_Witness ==
    /\ lastOp = "resolve"
    /\ Len(byKey) = 2
    /\ byKey[1].contact.advName = call.name
    /\ byKey[2].contact.advName = call.name
    /\ call.pc = "returned"
    /\ call.fetches = 0
    /\ call.result # <<>>
    /\ call.result[1].publicKey = byKey[2].contact.publicKey

\* C13: a resolveContactByAdvName call never fetches more than once; a
\* name-index hit returns the indexed entry with no fetch; a miss (with a
\* connection at hand) fetches exactly once, and what the call returns
\* after the fetch is the name index entry after the bulk upsert: an entry
\* of that name when the device reported the name, nothing when neither
\* the device nor anyone meanwhile stored it.
C13_ResolveBounded ==
    [][ /\ call'.fetches <= 1
        /\ lastOp' = "resolve" =>
              /\ call'.hit => (/\ call'.fetches = 0
                               /\ call'.pc = "returned"
                               /\ call'.result = byNameGet(Cache, call'.name))
              /\ call'.pc = "fetching" <=>
                    (/\ call'.name \notin {Null, ""}
                     /\ byNameGet(Cache, call'.name) = <<>>
                     /\ call'.fetches = 1)
              /\ UNCHANGED cacheVars
        /\ lastOp' = "resolve:fetched" =>
              /\ call.pc = "fetching" /\ call'.pc = "returned"
              /\ call'.fetches = 1 /\ ~call'.hit
              /\ call'.result = byNameGet(Cache', call'.name)
              /\ call'.reported =>
                    (call'.result # <<>> /\ call'.result[1].advName = call'.name)
              /\ (~call'.reported /\ byNameGet(Cache, call'.name) = <<>>)
                    => call'.result = <<>>
        /\ lastOp' = "resolve:failed" => (call'.fetches = 1 /\ UNCHANGED cacheVars)
      ]_vars

\* a miss was answered by the device, which did not report the name
C13_Witness ==
    /\ lastOp = "resolve:fetched"
    /\ call.fetches = 1
    /\ ~call.reported
    /\ call.result = <<>>
    /\ byKey # <<>>

\* the identities the directory holds
StoredKeys(m) == {m[i].key : i \in 1..Len(m)}

\* C14: whatever handler runs (adverts, contact and channel messages with
\* their bulk contact reads), every identity the directory holds stays in
\* it, and getCachedContactByPublicKey of every held identity returns a
\* profile of that identity.
C14_NeverForgotten ==
    [][ /\ StoredKeys(byKey) \subseteq StoredKeys(byKey')
        /\ \A i \in 1..Len(byKey') :
              LET publicKey == byKey'[i].contact.publicKey
                  found == getCachedContactByPublicKey(Cache', publicKey) IN
              /\ found # <<>>
              /\ found[1].publicKey = publicKey
              /\ found[1].publicKeyHex = byKey'[i].key
      ]_vars

\* an advert of a stored peer was handled while the directory held
\* another peer as well
C14_Witness ==
    /\ lastOp = "advert:hit"
    /\ Len(byKey) >= 2
    /\ adv.event # <<>>

\* the value the field-merge rule asks for: the payload's when it carries
\* the field, else the resolved profile's when it carries one, else none;
\* a coordinate the resolved profile lacks is rendered as the empty string
Merged(advert, contact, field) ==
    IF Present(field, advert[field]) THEN <<transform(field, advert[field])>>
    ELSE IF contact # <<>> /\ Present(field, Field(contact[1], field))
    THEN <<transform(field, Field(contact[1], field))>>
    ELSE IF contact # <<>> /\ field \in {"advLat", "advLon"} THEN <<coordinate(NoNum)>>
    ELSE <<>>

\* C15: each of type, lastAdvert, lastMod, advLat, advLon and advName of a
\* normalized advert is the payload's value when the payload carries one
\* (0 included), else the resolved profile's value, else absent.
C15_FieldMerge ==
    adv.pc = "done" =>
        \A field \in AdvertFields :
            adv.event[1][field] = Merged(adv.advert, adv.contact, field)

\* the row of the adverts table for a hex identity, <<>> without one
RowOf(table, publicKeyHex) ==
    SelectSeq(table, LAMBDA r : r.publicKey = publicKeyHex)

\* C16: onAdvertReceived asks the device only when the directory holds no
\* entry for the advert's identity, and takes the directory's entry as the
\* profile otherwise; when the device lookup fails the advert is handled
\* with no profile: it is cached, persisted and handed to the bot with the
\* payload's own fields, and the handler ends normally.
C16_AdvertCacheFirst ==
    [][ /\ lastOp' \in {"advert:hit", "advert:lookup"} =>
              LET cachedContact ==
                      getCachedContactByPublicKey(Cache, adv'.advert.publicKey) IN
              /\ lastOp' = "advert:lookup" <=> cachedContact = <<>>
              /\ adv'.lookups = IF cachedContact = <<>> THEN 1 ELSE 0
              /\ lastOp' = "advert:hit" =>
                    (adv'.pc = "done" /\ adv'.contact = cachedContact)
        /\ (lastOp' = "advert:looked" /\ adv'.failed) =>
              LET publicKeyHex == bytesToHex(adv.advert.publicKey) IN
              /\ adv'.pc = "done"
              /\ adv'.lookups = 1
              /\ adv'.contact = <<>>
              /\ adv'.event = <<normalize(adv.advert, <<>>)>>
              /\ getCachedContactByPublicKey(Cache', adv.advert.publicKey) # <<>>
              /\ RowOf(adverts', publicKeyHex) = adv'.event
      ]_vars

\* the device lookup of an advert failed and the advert went through
C16_Witness ==
    /\ lastOp = "advert:looked"
    /\ adv.failed
    /\ adv.pc = "done"
    /\ adv.event # <<>>
    /\ adv.advert.advName # Null
    /\ byKey # <<>>
    /\ adverts # <<>>

\* the hex identities of the rows of the adverts table
RowKeys(table) == {table[i].publicKey : i \in 1..Len(table)}

\* C17: the adverts table never holds two rows of one identity; an advert
\* that is persisted leaves its identity's row equal, column by column, to
\* its own normalized fields, and every other row as it was; no other
\* step changes the table.
C17_OneRowPerPeer ==
    [][ /\ \A i, j \in 1..Len(adverts') :
              adverts'[i].publicKey = adverts'[j].publicKey => i = j
        /\ IF lastOp' \in {"advert:hit", "advert:looked"} /\ adv'.persisted
           THEN LET publicKeyHex == bytesToHex(adv'.advert.publicKey) IN
                /\ RowOf(adverts', publicKeyHex) = adv'.event
                /\ RowKeys(adverts') = RowKeys(adverts) \cup {publicKeyHex}
                /\ \A k \in RowKeys(adverts) \ {publicKeyHex} :
                      RowOf(adverts', k) = RowOf(adverts, k)
           ELSE adverts' = adverts
      ]_vars

\* an advert with the key alone replaced the row an advert with every
\* field had left, while the table held another peer's row
C17_Witness ==
    /\ lastOp = "advert:hit"
    /\ adv.persisted
    /\ adv.advert.type = NoNum
    /\ Len(adverts) = 2
    /\ adv.event[1].type = <<"unknown">>
    /\ \E i \in 1..Len(adverts) : adverts[i].type = <<"chat">>

FallbackKeys(advName) == uniqueKeys(findAdvertsByName(adverts, advName, FallbackLimit))

\* C19: when the name of a channel message is neither in the name index
\* nor reported by the device, and the adverts table offers more than one
\* distinct identity for it, or none, the message row and the bot event
\* carry a null identity, and the directory holds what the device's bulk
\* read left in it: no entry is made for the name.
C19_AmbiguousName ==
    [][ (/\ lastOp' = "channel:fetched"
         /\ run'.contact = <<>>
         /\ Cardinality(FallbackKeys(run'.advName)) # 1) =>
          /\ byNameGet(Cache, run'.advName) = <<>>
          /\ ~Reports(run'.fetched, run'.advName)
          /\ run'.saves = 1
          /\ run'.dbOk =>
                (run'.row # <<>> /\ run'.row[1].publicKey = <<>>
                                /\ run'.row[1].advName = <<run'.advName>>)
          /\ run'.event[1].publicKey = <<>>
          /\ Cache' = cacheContacts(Cache, run'.fetched)
          /\ byNameGet(Cache', run'.advName) = <<>>
      ]_vars

\* two rows of the adverts table carry the name with two identities, the
\* device reported another peer, and the row was persisted without identity
C19_Witness ==
    /\ lastOp = "channel:fetched"
    /\ run.contact = <<>>
    /\ Cardinality(FallbackKeys(run.advName)) = 2
    /\ run.fetched # <<>>
    /\ run.row # <<>>
    /\ run.row[1].publicKey = <<>>

\* C20: every channel message whose handling has ended went through
\* saveMessage exactly once and through nudgeBot exactly once, with source
\* "channel", whatever came of getChannel and of the name resolution.
C20_ChannelAlwaysDispatched ==
    (run.kind = "channel" /\ run.pc \in {"done", "aborted"}) =>
        /\ run.saves = 1
        /\ run.dispatches = 1
        /\ run.event # <<>>
        /\ run.event[1].source = "channel"

\* C28: once an advert is handled, the directory entry of its identity
\* holds every field the merge resolved, so that the entry renders to the
\* normalized value of each of them.
C28_DirectoryHoldsMerged ==
    adv.pc = "done" =>
        LET entry == getCachedContactByPublicKey(Cache, adv.advert.publicKey) IN
        /\ entry # <<>>
        /\ \A field \in AdvertFields :
              adv.event[1][field] # <<>> =>
                  /\ Present(field, Field(entry[1], field))
                  /\ <<transform(field, Field(entry[1], field))>> = adv.event[1][field]

\* the positions of the colons of the last text split
Colons == {i \in 1..Len(lastQuery) : lastQuery[i] = ":"}

\* C26: a text with a colon is split at its first colon: what stands before
\* it is the name, what stands after it, less at most one whitespace
\* character, is the message text, later colons included; a text without
\* a colon gives no name and stays whole.
C26_FirstColonSplit ==
    lastOp = "split" =>
        IF Colons = {}
        THEN lastResult[1] = [advName |-> Null, parsedText |-> lastQuery]
        ELSE LET i == CHOOSE j \in Colons : \A k \in Colons : j <= k
                 rest == SubSeq(lastQuery, i + 1, Len(lastQuery)) IN
             /\ lastResult[1].advName = spell(SubSeq(lastQuery, 1, i - 1))
             /\ lastResult[1].parsedText \in {rest, SubSeq(rest, 2, Len(rest))}
             /\ (rest # <<>> /\ Head(rest) \in Whitespace)
                    <=> lastResult[1].parsedText # rest

\* C26 for texts of one line: the same split, for every text that holds no
\* line terminator.
C26_OneLineSplit ==
    (lastOp = "split" /\ dotAll(lastQuery)) => C26_FirstColonSplit

\* a text with two colons was split at the first
C26_Witness ==
    /\ lastOp = "split"
    /\ dotAll(lastQuery)
    /\ Cardinality(Colons) = 2
    /\ lastResult[1].advName = "Rover"
    /\ ":" \in {lastResult[1].parsedText[i] : i \in 1..Len(lastResult[1].parsedText)}

\* the channel indices the environments name, read off their lists
Listed(value) ==
    CASE value = "1" -> {1}
      [] value = "1," -> {1}
      [] value = " 2 ,x" -> {2}
      [] value = "1, 2" -> {1, 2}
      [] value = "2" -> {2}
      [] value = "0,1" -> {0, 1}
      [] OTHER -> {}
ChannelNudges == {n \in 1..Len(nudges) : nudges[n].event.source = "channel"}
RelaySends(n) == {i \in 1..Len(sent) : sent[i].by = n /\ sent[i].kind = "relay"}
ReplySends(n) == {i \in 1..Len(sent) : sent[i].by = n /\ sent[i].kind = "reply"}

\* C22: a channel event whose channel index is not in the translate-from
\* set causes no AI call and no send of the relay; one whose index is in the
\* set and whose text is not empty causes exactly one AI call.
C22_RelayGating ==
    \A n \in ChannelNudges :
        LET event == nudges[n].event IN
        IF event.channelIdx \notin Listed(env.AI_TRANSLATE_FROM)
        THEN nudges[n].aiCalls = 0 /\ RelaySends(n) = {}
        ELSE event.text # "" => nudges[n].aiCalls = 1

\* C22 as the code has it: the AI call is made exactly once when the index
\* is in the set, a connection is handed over and the text holds a character
\* that is not white space; in every other case it is not made, and outside
\* the set the relay sends nothing.
C22_RelayGatingTrimmed ==
    \A n \in ChannelNudges :
        LET event == nudges[n].event
            blank == \A i \in 1..Len(event.text) : charAt(event.text, i) \in Blank IN
        /\ nudges[n].aiCalls =
               IF /\ event.channelIdx \in Listed(env.AI_TRANSLATE_FROM)
                  /\ event.connection
                  /\ ~blank
               THEN 1 ELSE 0
        /\ event.channelIdx \notin Listed(env.AI_TRANSLATE_FROM) => RelaySends(n) = {}

C22_Witness ==
    /\ \E n \in ChannelNudges :
           /\ nudges[n].event.channelIdx \in Listed(env.AI_TRANSLATE_FROM)
           /\ nudges[n].event.text = "labdien"
           /\ nudges[n].aiCalls = 1
           /\ nudges[n].pc = "done"
           /\ RelaySends(n) # {}

\* the bot names and texts of the model of which the text mentions the name
MentionPairs ==
    {<<"Sol-E", "hey @Sol-E are you there">>, <<"Sol-E", "hey @[Sol-E]">>,
     <<"Sol-E", "@sol-e">>, <<"Base", "@Base">>}
Replied(n) ==
    /\ nudges[n].event.channelIdx \in Listed(env.BOT_CHANNELS)
    /\ <<botName, nudges[n].event.text>> \in MentionPairs
RowOfEvent(event) ==
    [channelIdx |-> event.channelIdx, advName |-> event.advName, text |-> event.text]

\* C23: a channel message is answered with exactly one reply if and only if
\* its channel is an allowed channel and its text mentions the bot's name as
\* '@Name' or '@[Name]', whatever the case of the letters and with the
\* name's characters taken literally; the reply follows the relay. Mentioned
\* or not, the row of the message is persisted before the bot is engaged
\* and stays in the table.
C23_MentionGating ==
    [][ /\ \A n \in 1..Len(nudges') :
              LET nudge == nudges'[n]
                  replies == {i \in 1..Len(sent') :
                                sent'[i].by = n /\ sent'[i].kind = "reply"} IN
              (nudge.event.source = "channel" /\ nudge.event.connection) =>
                  /\ Cardinality(replies) <= 1
                  /\ replies # {} <=>
                         /\ nudge.pc \in {"reply", "done"}
                         /\ nudge.event.channelIdx \in Listed(env.BOT_CHANNELS)
                         /\ <<botName, nudge.event.text>> \in MentionPairs
                  /\ \A i \in replies :
                         /\ sent'[i].channelIdx = nudge.event.channelIdx
                         /\ sent'[i].text = replyText(nudge.event.advName, nudge.event.text)
        /\ lastOp' = "channel:dispatch" =>
               messages' = Append(messages, RowOfEvent(nudges'[1].event))
        /\ lastOp' # "channel:dispatch" => messages' = messages
      ]_vars

C23_Witness ==
    /\ botName = "Sol-E"
    /\ Len(nudges) = 1
    /\ nudges[1].event.text = "hey solely there"
    /\ nudges[1].event.channelIdx \in Listed(env.BOT_CHANNELS)
    /\ nudges[1].pc = "done"
    /\ sent = <<>>
    /\ messages = <<RowOfEvent(nudges[1].event)>>

\* the text '<name>: <translation>' of a nudge whose translation has come,
\* the translation cut to max(0, messageLimit - (len(name) + 2))
NameOf(n) ==
    IF nudges[n].event.advName \in {Null, ""} THEN "Unknown" ELSE nudges[n].event.advName
Composed(n) ==
    LET room == messageLimit - (Len(NameOf(n)) + 2)
        kept == IF room < 0 THEN 0
                ELSE IF Len(nudges[n].translated) < room THEN Len(nudges[n].translated)
                ELSE room IN
    NameOf(n) \o ": " \o SubSeq(nudges[n].translated, 1, kept)

\* C24: every text the relay sends is at most 135 characters long and is
\* '<name>: <translation>', name the display name or 'Unknown', the
\* translation cut to its budget, whatever the lengths of name and translation.
C24_PayloadForm ==
    \A i \in 1..Len(sent) :
        sent[i].kind = "relay" =>
            /\ Len(sent[i].text) <= messageLimit
            /\ sent[i].text = Composed(sent[i].by)

\* C24 as the code has it: every text the relay sends is the first 135
\* characters of '<name>: <translation>'; it is the whole of it when the
\* name has at most 133 characters, and a longer name loses the separator
\* or its own end.
C24_PayloadCapped ==
    \A i \in 1..Len(sent) :
        sent[i].kind = "relay" =>
            LET whole == Composed(sent[i].by) IN
            /\ Len(sent[i].text) <= messageLimit
            /\ Len(NameOf(sent[i].by)) <= messageLimit - 2 => sent[i].text = whole
            /\ Len(NameOf(sent[i].by)) > messageLimit - 2 =>
                   /\ Len(sent[i].text) = messageLimit
                   /\ sent[i].text = SubSeq(whole, 1, messageLimit)

C24_Witness ==
    \E i \in 1..Len(sent) :
        /\ sent[i].kind = "relay"
        /\ Len(NameOf(sent[i].by)) = messageLimit - 1
        /\ Len(sent[i].text) = messageLimit
        /\ nudges[sent[i].by].pc = "done"

\* C25: when no destination channel is configured, no connection is handed
\* over, the AI call fails or the translation is empty, a relay that passed
\* the translate-from gate sends nothing and returns a soft failure (a
\* result with a message), and nudgeBot goes on to its end.
C25_SoftFailures ==
    \A n \in ChannelNudges :
        LET nudge == nudges[n]
            returned == nudge.pc \in {"reply", "done"}
            soft == nudge.result \notin {Null, Forwarded}
            noDestination == env.AI_TRANSLATE_TO \in {Undefined, "x"}
            noTranslation == nudge.aiCalls = 1 /\ returned /\ nudge.translated = Null IN
        (/\ nudge.event.channelIdx \in Listed(env.AI_TRANSLATE_FROM)
         /\ noDestination \/ ~nudge.event.connection \/ noTranslation)
        => /\ RelaySends(n) = {}
           /\ returned => soft

\* the entries of the runs of the listener, and those that engaged the bot
Entries == {<<j, k>> : j \in 1..Len(jobs), k \in 1..MaxBatch} 
LogEntries == {e \in Entries : e[2] <= Len(jobs[e[1]].log)}
Entry(e) == jobs[e[1]].log[e[2]]

\* C21: a failing write is caught and the bot is still engaged: for every
\* handled channel message and every handled contact message of a known
\* contact there is one nudgeBot call, whether the row was saved or not,
\* and for every handled advert one, whether the upsert went through or
\* not. A failing nudgeBot call leaves the row where it is: a row is in
\* the table exactly when the write worked. No write and no call is made
\* twice.
C21_IndependentSteps ==
    /\ \A e \in LogEntries :
           /\ Entry(e).nudge # 0 <=> (Entry(e).kind = "channel" \/ Entry(e).known)
           /\ Entry(e).saved <=> Entry(e).dbOk
           /\ Entry(e).nudge # 0 =>
                  /\ Entry(e).nudge \in 1..Len(nudges)
                  /\ nudges[Entry(e).nudge].event.source = Entry(e).kind
           /\ \A f \in LogEntries : (Entry(f).nudge = Entry(e).nudge /\ f # e) =>
                                        Entry(e).nudge = 0
    /\ jobs # <<>> =>
           /\ Len(messages) = Cardinality({e \in LogEntries : Entry(e).saved})
           /\ Len(nudges) = Cardinality({e \in LogEntries : Entry(e).nudge # 0})
    /\ adv.pc # "aborted"
    /\ adv.pc = "done" =>
           /\ Len(nudges) = 1
           /\ nudges[1].event.source = "advert"
           /\ Len(adverts) = IF adv.persisted THEN 1 ELSE 0

\* a write failed and the bot was engaged all the same, in a run whose
\* other nudgeBot call threw after its row was saved
C21_Witness ==
    \E e, f \in LogEntries :
        /\ ~Entry(e).dbOk /\ Entry(e).nudge # 0
        /\ Entry(f).saved /\ Entry(f).nudge # 0 /\ nudges[Entry(f).nudge].pc = "threw"

\* C29: a failure while one message of a batch is handled is caught and
\* the loop goes on to the remaining messages: a run of the listener that
\* has ended has left no message of its batch unhandled but one whose
\* handler threw, and has saved each handled one whose write worked. Stated
\* for the runs in which no nudgeBot call threw: a device call failing is
\* enough.
C29_BatchContinues ==
    (\A n \in 1..Len(nudges) : nudges[n].pc # "threw") =>
        \A j \in 1..Len(jobs) :
            /\ jobs[j].pc = "done" => jobs[j].queue = <<>>
            /\ jobs[j].pc = "caught" => Len(jobs[j].queue) = 1
            /\ \A k \in 1..Len(jobs[j].log) :
                   jobs[j].log[k].dbOk => jobs[j].log[k].saved

\* C30: a run of the listener does not wait for the relay of another run:
\* while a relay is in its wait, a run with a message at hand can call its
\* handler, and the row of a message is saved and its nudgeBot call made
\* before any relay that was waiting by then has sent.
C30_ConcurrentIngest ==
    \A j \in 1..Len(jobs) :
        (/\ jobs[j].pc = "next"
         /\ \A k \in 1..Len(jobs) : jobs[k].pc # "handling"
         /\ \E n \in 1..Len(nudges) : nudges[n].pc = "wait")
        => ENABLED JobNext(j, TRUE, TRUE)

\* two relays in flight: the second message is saved and its relay is
\* waiting while the first relay has not sent yet
C30_Witness ==
    /\ Len(nudges) = 2
    /\ nudges[1].pc = "wait"
    /\ nudges[2].pc = "wait"
    /\ Len(messages) = 2
    /\ sent = <<>>
    /\ Len(jobs) = 2
    /\ jobs[1].pc = "awaitBot"
    /\ jobs[2].pc = "awaitBot"

\* the POST actions of the model that do not succeed, read off the request
\* and the device
FailedAction(q) ==
    /\ q.req.method = "POST"
    /\ q.req.path = "/api"
    /\ ~q.req.body.invalidJson
    /\ q.req.body.action # Null
    /\ \/ q.req.body.action \in {"nope", "toString", "hasOwnProperty"}
       \/ /\ q.req.body.action = "apiReboot"
          /\ q.device = "throws"
       \/ /\ q.req.body.action = "apiRemoveChannel"
          /\ q.req.body.params.channelIdx \in {NoNum, -2} \/ q.device = "throws"
       \/ /\ q.req.body.action = "apiJoinPrivateChannel"
          /\ \/ q.req.body.params.channelName = ""
             \/ q.req.body.params.secretKey \in {"", "zz", "abc", "00ff"}
             \/ q.device \in {"throws", "full"}

\* C27: a POST action that fails is answered with { ok: false, error } and
\* status 400, 404, 405 or 500; { ok: true, result } answers only an action
\* that succeeded; every request is answered.
C27_StructuredFailure ==
    lastOp = "http" =>
        LET response == lastResult[1] IN
        /\ response # Unhandled
        /\ FailedAction(lastQuery) =>
               /\ ~response.ok
               /\ response.error # Null
               /\ response.status \in {400, 404, 405, 500}
        /\ response.ok => ~FailedAction(lastQuery)

\* the kind of a waiting message and of a saved row
KindOf(w) == IF w.contactMessage # <<>> THEN "contact" ELSE "channel"
RowKind(row) == IF row.channelIdx = <<>> THEN "contact" ELSE "channel"
RECURSIVE SavedKinds(_)
SavedKinds(log) ==
    IF log = <<>> THEN <<>>
    ELSE (IF Head(log).saved THEN <<Head(log).kind>> ELSE <<>>) \o SavedKinds(Tail(log))
Finished(k) == k = 0 \/ nudges[k].pc \in {"done", "threw"}

\* C31: a run of the listener handles the messages of its batch one at a
\* time and in the order of the batch: what is left to handle is the tail
\* of the batch, the handled messages are its head, the handler of a
\* message is called only when the nudgeBot call of every earlier message
\* of the batch has returned or thrown, and the rows of the batch are in
\* the table in the order of the batch.
C31_BatchInOrder ==
    \A j \in 1..Len(jobs) :
        LET job == jobs[j]
            at == Len(job.batch) - Len(job.queue) IN
        /\ job.queue = SubSeq(job.batch, at + 1, Len(job.batch))
        /\ Len(job.log) = IF job.pc = "awaitBot" \/ (job.pc = "caught" /\ run.pc = "done")
                          THEN at + 1 ELSE at
        /\ \A k \in 1..Len(job.log) :
               /\ job.log[k].kind = KindOf(job.batch[k])
               /\ (k < Len(job.log) \/ job.pc # "awaitBot") => Finished(job.log[k].nudge)
        /\ Len(jobs) = 1 =>
               /\ Len(messages) = Len(SavedKinds(job.log))
               /\ \A i \in 1..Len(messages) : RowKind(messages[i]) = SavedKinds(job.log)[i]

\* a batch of a channel message and a contact message, both saved: the
\* relay of the first was sent before the second was handled
C31_Witness ==
    /\ Len(jobs) = 1
    /\ Len(jobs[1].batch) = 2
    /\ KindOf(jobs[1].batch[1]) = "channel"
    /\ KindOf(jobs[1].batch[2]) = "contact"
    /\ jobs[1].pc = "done"
    /\ Len(messages) = 2
    /\ RowKind(messages[1]) = "channel"
    /\ RowKind(messages[2]) = "contact"
    /\ Len(sent) = 1
    /\ Len(nudges) = 2

\* the steps that end the name resolution of a channel message
ChannelResolved == {"channel:done", "channel:fetched", "channel:fetchFailed"}

\* C32: the name of a channel message is resolved by the name index, then
\* by the device's contacts, then by the adverts table, in that order. The
\* device is asked only after the name index missed an extracted name, and
\* at most once; the adverts table is asked only after the device's list
\* came back without the name, at most once, and never for a message
\* without a name, for a name the index holds or for one the device
\* reported. When both miss, the table is asked.
C32_ResolutionChain ==
    [][ /\ lastOp' = "channel:fetching" =>
              /\ run'.advName \notin {Null, ""}
              /\ byNameGet(Cache, run'.advName) = <<>>
              /\ call'.fetches = 1
              /\ run'.queries = 0
        /\ lastOp' \in ChannelResolved =>
              /\ call'.fetches <= 1
              /\ run'.queries <= 1
              /\ call'.fetches = 1 => run.pc = "fetching"
              /\ run'.queries = 1 =>
                    /\ lastOp' = "channel:fetched"
                    /\ run.pc = "fetching"
                    /\ run'.advName \notin {Null, ""}
                    /\ byNameGet(Cache, run'.advName) = <<>>
                    /\ call'.fetches = 1
                    /\ ~Reports(run'.fetched, run'.advName)
                    /\ run'.contact = <<>>
              /\ (lastOp' = "channel:fetched" /\ run'.contact = <<>>) => run'.queries = 1
              /\ lastOp' = "channel:done" =>
                    /\ call'.fetches = 0
                    /\ run'.advName \in {Null, ""} \/ byNameGet(Cache, run'.advName) # <<>>
      ]_vars

\* the adverts table was asked after the device reported only another
\* peer, while the directory held an entry of another name
C32_Witness ==
    /\ lastOp = "channel:fetched"
    /\ run.queries = 1
    /\ run.fetched # <<>>
    /\ call.fetches = 1
    /\ byName # <<>>
    /\ run.row # <<>>
    /\ run.row[1].publicKey # <<>>

\* C33: when the adverts table offers exactly one identity for the name of
\* a channel message that the name index and the device missed, the row
\* and the bot event carry that identity and the directory gets an entry
\* of that name and identity: a resolution of the name right after it
\* returns the identity from the name index without a device call. A
\* channel message whose name the index holds is given the identity of
\* the index entry, with no fetch, no query and no change of the directory.
C33_FallbackCached ==
    [][ /\ (/\ lastOp' = "channel:fetched"
            /\ run'.queries = 1
            /\ run'.dbOk
            /\ Cardinality(FallbackKeys(run'.advName)) = 1) =>
              LET key == CHOOSE k \in FallbackKeys(run'.advName) : TRUE
                  next == resolveStart(Cache', run'.advName, TRUE) IN
              /\ run'.row # <<>>
              /\ run'.row[1].publicKey = <<key>>
              /\ run'.row[1].advName = <<run'.advName>>
              /\ run'.event[1].publicKey = <<key>>
              /\ next.pc = "returned"
              /\ next.hit
              /\ next.fetches = 0
              /\ next.result[1].publicKeyHex = key
              /\ getCachedContactByPublicKey(Cache', hexToBytes(key)) # <<>>
        /\ (lastOp' = "channel:done" /\ call'.hit) =>
              LET entry == byNameGet(Cache, run'.advName) IN
              /\ entry # <<>>
              /\ call'.fetches = 0
              /\ run'.queries = 0
              /\ run'.event[1].publicKey = <<entry[1].publicKeyHex>>
              /\ run'.dbOk => (run'.row # <<>> /\ run'.row[1].publicKey = <<entry[1].publicKeyHex>>)
              /\ UNCHANGED cacheVars
      ]_vars

\* a second message of the name: resolved from the entry the fallback made
C33_Witness ==
    /\ lastOp = "channel:done"
    /\ call.hit
    /\ call.fetches = 0
    /\ run.queries = 0
    /\ run.advName = "Ghost"
    /\ DOMAIN call.result[1] = {"publicKey", "advName", "lastMod", "publicKeyHex"}
    /\ run.row # <<>>
    /\ run.row[1].publicKey = <<bytesToHex(KeyWith(0))>>
    /\ adverts = <<EarlierRow(KeyWith(0), "Ghost")>>

\* what translateChannelMessage returns when it ends without a send
SoftFailures ==
    {"Missing destination channel id", "Missing connection", "Missing text",
     "Translation empty", "Translation failed"}

\* C34: nudgeBot on a channel event runs the relay first and the mention
\* reply after it, each whatever the other did. While the relay waits for
\* the AI service, its pause or its send, no reply has been sent; a reply
\* comes after the relay's send in the order of the sends; once the relay
\* has returned, be it with a forwarded text, with a message of failure or
\* with null, a mention on an allowed channel has exactly one reply; and
\* the call ends as done after the reply's send settled, failed or not:
\* it never throws.
C34_RelayThenReply ==
    \A n \in ChannelNudges :
        LET nudge == nudges[n]
            mention == /\ nudge.event.channelIdx \in Listed(env.BOT_CHANNELS)
                       /\ <<botName, nudge.event.text>> \in MentionPairs
                       /\ nudge.event.connection IN
        /\ nudge.pc \in {"ai", "wait", "send", "reply", "done"}
        /\ nudge.pc \in {"ai", "wait", "send"} => ReplySends(n) = {}
        /\ \A i \in RelaySends(n), k \in ReplySends(n) : i < k
        /\ nudge.pc \in {"reply", "done"} =>
               /\ nudge.result \in SoftFailures \cup {Forwarded, Null}
               /\ Cardinality(ReplySends(n)) = IF mention THEN 1 ELSE 0
               /\ nudge.result = Forwarded => Cardinality(RelaySends(n)) = 1
        /\ lastOp = "replySend" => (nudge.pc = "done" /\ ReplySends(n) # {})

\* the relay failed at its send and the mention was answered all the same
C34_Witness ==
    /\ Len(nudges) = 1
    /\ nudges[1].result = "Translation failed"
    /\ RelaySends(1) # {}
    /\ ReplySends(1) # {}
    /\ nudges[1].pc = "done"
    /\ lastOp = "replySend"

\* C35: the steps of one relay follow one another: the payload is sent in
\* the step that ends the 10 s pause, which began when the AI service
\* returned a translation that is not empty after trimming; the pause and
\* the send are entered from no other step, a call sends at most one
\* payload, and it asks the AI service at most once.
C35_RelaySerial ==
    [][ \A n \in 1..Len(nudges') :
          LET before == IF n <= Len(nudges) THEN nudges[n].pc ELSE "called"
              sends == {i \in 1..Len(sent) : sent[i].by = n /\ sent[i].kind = "relay"}
              sends2 == {i \in 1..Len(sent') : sent'[i].by = n /\ sent'[i].kind = "relay"} IN
          /\ nudges'[n].aiCalls <= 1
          /\ Cardinality(sends2) <= 1
          /\ (nudges'[n].pc = "wait" /\ before # "wait") =>
                 /\ before = "ai"
                 /\ lastOp' = "queryAiGate"
                 /\ nudges'[n].translated \notin {Null, ""}
                 /\ nudges'[n].translated = trim(nudges'[n].translated)
                 /\ sends2 = {}
          /\ sends2 # sends =>
                 /\ before = "wait"
                 /\ nudges'[n].pc = "send"
                 /\ lastOp' = "wait"
                 /\ nudges'[n].aiCalls = 1
                 /\ nudges'[n].translated \notin {Null, ""}
                 /\ \A i \in sends2 : sent'[i].text = nudges[n].payload
          /\ (nudges'[n].pc = "send" /\ before # "send") => before = "wait"
          /\ nudges'[n].pc \in {"ai", "wait"} => sends2 = {}
      ]_vars

\* a relay that went through its three steps and forwarded its payload
C35_Witness ==
    /\ Len(nudges) = 1
    /\ nudges[1].aiCalls = 1
    /\ nudges[1].translated = "hello"
    /\ nudges[1].result = Forwarded
    /\ Cardinality(RelaySends(1)) = 1
    /\ sent[1].text = "Rover: hello"

\* the identities a contact list reports, and the last contact of a list
\* with an identity
ReportedKeys(contacts) ==
    {bytesToHex(contacts[i].publicKey) :
        i \in {j \in 1..Len(contacts) : contacts[j].publicKey # <<>>}}
LastReport(contacts, key) ==
    contacts[CHOOSE i \in 1..Len(contacts) :
                 /\ contacts[i].publicKey # <<>>
                 /\ bytesToHex(contacts[i].publicKey) = key
                 /\ \A j \in (i + 1)..Len(contacts) :
                        contacts[j].publicKey = <<>> \/ bytesToHex(contacts[j].publicKey) # key]

\* C36: after the warm-up read of a connect the identities of the
\* directory are the identities the device reported, each with the
\* profile the device reported.
C36_RebuiltFromDevice ==
    lastOp = "warmed" =>
        /\ StoredKeys(byKey) = ReportedKeys(lastQuery)
        /\ \A i \in 1..Len(byKey) : byKey[i].contact = LastReport(lastQuery, byKey[i].key)

\* C36 as the code has it: the warm-up read is an upsert on top of what
\* the directory holds. After it the directory holds the identities it
\* held before and the identities the device reported; a reported identity
\* has the profile the device reported for it last, every other identity
\* the profile it had.
C36_UpsertedFromDevice ==
    [][ lastOp' = "warmed" =>
          /\ StoredKeys(byKey') = StoredKeys(byKey) \cup ReportedKeys(lastQuery')
          /\ \A i \in 1..Len(byKey') :
                IF byKey'[i].key \in ReportedKeys(lastQuery')
                THEN byKey'[i].contact = LastReport(lastQuery', byKey'[i].key)
                ELSE \E j \in 1..Len(byKey) : byKey[j] = byKey'[i]
      ]_vars

\* a warm-up read that refreshed one stored peer and reported a new one,
\* while a peer the device did not report stayed in the directory
C36_Witness ==
    /\ lastOp = "warmed"
    /\ Len(lastQuery) = 2
    /\ Len(byKey) = 3
    /\ byKey[1].contact.lastMod = 10
    /\ byKey[2].contact.lastMod = 20
    /\ byKey[3].contact.lastMod = 20
    /\ byKey[1].key \notin ReportedKeys(lastQuery)

\* the connect() calls that have neither resolved nor rejected
InFlight == {i \in 1..Len(attempts) : attempts[i].promise = "pending"}

\* C37: at most one connect() call is in flight: connectDevice does not
\* call connect() while the promise of an earlier call is unsettled,
\* whatever timers fire and whatever 'disconnected' and 'error' events
\* arrive meanwhile.
C37_SingleConnectInFlight ==
    [][ Len(attempts') > Len(attempts) => InFlight = {} ]_vars

\* C38: while the state is Connected no reconnect timer is pending, so
\* that no timer calls connect() on a connected connection, stale
\* watchdogs and late rejections of connect() included.
C38_ConnectedNoReconnect ==
    isConnected => (NumReconnect(timers) = 0 /\ reconnectTimer = NoTimer)

\* C39: every entry of the name index, name N to identity K, has K in the
\* identity index with a current profile of display name N, so that a
\* resolution by name never returns a peer whose latest profile carries
\* another name.
C39_NameIndexConsistent ==
    \A name \in DOMAIN byName :
        \E i \in 1..Len(byKey) :
            /\ byKey[i].key = byName[name].publicKeyHex
            /\ byKey[i].contact.advName = name

\* ------------------------------------------- the bot name over a session
\* index.js sets the bot name in its 'connected' handler, from the
\* self-info the device returns; channel messages arrive before, between
\* and after the reads. The runs connect, lose the port and connect again,
\* with one channel message on its way through nudgeBot; its channel is not
\* one of AI_TRANSLATE_FROM, so that nudgeBot goes to its mention test at once.
NamingRows ==
    [channelIdx : {0, 2}, advName : {"Rover"}, text : {"@Base"}]
    \cup [channelIdx : {2}, advName : {"Rover"}, text : {"@[", "ping"}]

InitNaming ==
    /\ InitWith(MaxConnects)
    /\ adverts = <<>>
    /\ reconnectDelay = Delay
    /\ deviceExists
    /\ ~meshcoreDevice
    /\ botName = Null
    /\ env = BatchEnv

NextNaming ==
    \/ Launch
    \/ \E i \in 1..Len(attempts) : ConnectResolves(i)
    \/ \E i \in 1..Len(attempts) : EvConnected(i)
    \/ \E i \in 1..Len(attempts) : EvDisconnected(i)
    \/ FireReconnect
    \/ Tick
    \/ \E k \in 1..Len(warm) : WarmContactsOk(k)
    \/ \E k \in 1..Len(warm), name \in DeviceSelfNames : WarmSelfInfoOk(k, name)
    \/ \E row \in NamingRows : ChannelDispatch(row, TRUE)
    \/ \E ok \in BOOLEAN : ReplySendSettles(1, ok)

SpecNaming == InitNaming /\ [][NextNaming]_vars

\* the replies a step adds to the sends
NewReplies == {i \in (Len(sent) + 1)..Len(sent') : sent'[i].kind = "reply"}
\* the warm-ups whose getSelfInfo() resolves in a step
SelfInfoReads ==
    {k \in 1..Len(warm) : warm[k] = "getSelfInfo" /\ warm'[k] = "syncDeviceTime"}

\* C40: while the bot name is unset (before the first self-info of a
\* session, or after a self-info with an empty name) no step sends a mention
\* reply, whatever the text and the channel of the message on its way; and
\* a self-info read leaves the name unset exactly when its name is empty,
\* and set to that name otherwise.
C40_UnnamedBotSilent ==
    [][ /\ (botName = Null => NewReplies = {})
        /\ (SelfInfoReads # {} =>
                botName' = IF selfInfo' = "" THEN Null ELSE selfInfo')
        /\ (SelfInfoReads = {} => botName' = botName) ]_vars

\* a message that names a bot went through an allowed channel while the
\* name was unset, after a self-info with an empty name had reset a name
\* set before, and was not answered
C40_Witness ==
    /\ botName = Null
    /\ selfInfo = ""
    /\ Len(warm) >= 2
    /\ \E n \in ChannelNudges :
           /\ nudges[n].pc = "done"
           /\ nudges[n].event.text = "@Base"
           /\ nudges[n].event.channelIdx \in Listed(env.BOT_CHANNELS)
           /\ ReplySends(n) = {}

====
